---------------------------- MODULE Spec2Model ----------------------------
(* A model of the tool layer of the RNA-seq agent: the query gateway        *)
(* (database.py), the result cache and the tools built on it (tools.py,    *)
(* agent.py, plotter.py).                                                   *)
(*                                                                          *)
(* Texts.  A Python str is modelled as a sequence of pieces, each piece a   *)
(* TLA+ string.  Text that the program inspects character by character      *)
(* (SQL text, identifiers, plot requests, the messages of the store) is     *)
(* held one character per piece, so that upper(), lower(), strip(),         *)
(* split() and the `in` substring test are computed as Python computes      *)
(* them.  A literal of the source that the program only concatenates and    *)
(* returns is held as one piece.                                            *)
EXTENDS Integers, Sequences, FiniteSets, TLC

VARIABLES
    impl,             \* which tool set the process runs: "tools" (tools.py) or "agent" (agent.py)
    storeCfg,         \* what the SQLite file holds (one of StoreConfigs)
    allowCfg,         \* what the configuration names as chart types (one of AllowConfigs)
    connection,       \* RNAseqDatabase.connection: "None", "open" or "closed"
    row_factory,      \* connection.row_factory: "None" (tuples) or "Row"
    LAST_QUERY_DATA,  \* tools.py: the process-wide result cache
    last_query_data,  \* plotter.py: RNAseqPlotter.last_query_data
    context_state,    \* agent.py: RNAseqAgent.context_state
    now,              \* the wall clock, in seconds
    lastCall,         \* the last call made: what was asked, what came back
    turn,             \* agent.py: where RNAseqAgent.ask stands in the turn it serves
    assets,           \* the files under the project directory
    conv,             \* app.py: the conversations the one agent serves, and their threads
    memory,           \* agent.py: RNAseqAgent.memory, the messages of the chat history
    origin            \* which store operation wrote each field of the result cache

vars == <<impl, storeCfg, allowCfg, connection, row_factory, LAST_QUERY_DATA,
          last_query_data, context_state, now, lastCall, turn, assets, conv, memory,
          origin>>

\* what only the serving of several conversations changes
serving == <<assets, conv, memory, origin>>

----------------------------------------------------------------------------
(* Python str operations                                                    *)

LowerLetters == <<"a","b","c","d","e","f","g","h","i","j","k","l","m",
                  "n","o","p","q","r","s","t","u","v","w","x","y","z">>
UpperLetters == <<"A","B","C","D","E","F","G","H","I","J","K","L","M",
                  "N","O","P","Q","R","S","T","U","V","W","X","Y","Z">>

UpperChar(c) ==
    IF \E i \in 1..26 : LowerLetters[i] = c
    THEN UpperLetters[CHOOSE i \in 1..26 : LowerLetters[i] = c]
    ELSE c

LowerChar(c) ==
    IF \E i \in 1..26 : UpperLetters[i] = c
    THEN LowerLetters[CHOOSE i \in 1..26 : UpperLetters[i] = c]
    ELSE c

\* str.upper(), str.lower()
Upper(s) == [i \in 1..Len(s) |-> UpperChar(s[i])]
Lower(s) == [i \in 1..Len(s) |-> LowerChar(s[i])]

\* sub in s
Contains(s, sub) ==
    \E i \in 0..(Len(s) - Len(sub)) : SubSeq(s, i + 1, i + Len(sub)) = sub

IsSpace(c) == c \in {" ", "\n", "\t"}

\* str.strip()
RECURSIVE LStrip(_)
LStrip(s) == IF s # <<>> /\ IsSpace(Head(s)) THEN LStrip(Tail(s)) ELSE s
RECURSIVE RStrip(_)
RStrip(s) ==
    IF s # <<>> /\ IsSpace(s[Len(s)]) THEN RStrip(SubSeq(s, 1, Len(s) - 1)) ELSE s
Strip(s) == RStrip(LStrip(s))

\* the index of the first occurrence of character c in s, 0 if there is none
FirstIndex(s, c) ==
    IF \E i \in 1..Len(s) : s[i] = c
    THEN CHOOSE i \in 1..Len(s) : s[i] = c /\ \A j \in 1..(i - 1) : s[j] # c
    ELSE 0

\* str.split(c): the pieces between the occurrences of c (never empty)
RECURSIVE Split(_, _)
Split(s, c) ==
    LET i == FirstIndex(s, c)
    IN  IF i = 0 THEN <<s>>
        ELSE <<SubSeq(s, 1, i - 1)>> \o Split(SubSeq(s, i + 1, Len(s)), c)

\* sep.join(list)
RECURSIVE Join(_, _)
Join(list, sep) ==
    IF list = <<>> THEN <<>>
    ELSE IF Len(list) = 1 THEN list[1]
    ELSE list[1] \o sep \o Join(Tail(list), sep)

\* c * n
RECURSIVE Repeat(_, _)
Repeat(c, n) == IF n <= 0 THEN <<>> ELSE <<c>> \o Repeat(c, n - 1)

Range(s) == {s[i] : i \in 1..Len(s)}

Digits == {"0","1","2","3","4","5","6","7","8","9"}
\* \w
IsWord(c) == c \in Range(LowerLetters) \cup Range(UpperLetters) \cup Digits \cup {"_"}


----------------------------------------------------------------------------
(* The SQLite file.  The program never sees it but through sqlite3; what    *)
(* follows is what sqlite3 answers for the statements the model issues.     *)

T_t ==   \* t
    <<"t">>
T_big ==   \* big
    <<"b","i","g">>
T_nope ==   \* nope
    <<"n","o","p","e">>
T_odd ==   \* drop-outs
    <<"d","r","o","p","-","o","u","t","s">>
T_wide ==   \* wide
    <<"w","i","d","e">>
T_created ==   \* created_samples
    <<"c","r","e","a","t","e","d","_","s","a","m","p","l","e","s">>
C_g ==   \* g
    <<"g">>
C_x ==   \* x
    <<"x">>
C_y ==   \* y
    <<"y">>
C_n ==   \* n
    <<"n">>
C_upd ==   \* updated_at
    <<"u","p","d","a","t","e","d","_","a","t">>
C_q ==   \* q
    <<"q">>
TY_TEXT ==   \* TEXT
    <<"T","E","X","T">>
TY_REAL ==   \* REAL
    <<"R","E","A","L">>
TY_INTEGER ==   \* INTEGER
    <<"I","N","T","E","G","E","R">>
K_cid ==   \* cid
    <<"c","i","d">>
K_name ==   \* name
    <<"n","a","m","e">>
K_type ==   \* type
    <<"t","y","p","e">>
K_notnull ==   \* notnull
    <<"n","o","t","n","u","l","l">>
K_dflt_value ==   \* dflt_value
    <<"d","f","l","t","_","v","a","l","u","e">>
K_pk ==   \* pk
    <<"p","k">>
K_text ==   \* text
    <<"t","e","x","t">>

\* A value of a row: its Python type and its str().
Val(ty, v) == [ty |-> ty, v |-> v]
PyNone == Val("NoneType", <<"None">>)

\* the preview of the query tool shows this many rows
max_rows == 15

\* The contents the file may have.  "plain": table t (g TEXT, x REAL, y REAL)
\* with seven rows (six genes, one of them twice; y holds values below, at
\* and above 0.05, a NULL and a text) and table big (n INTEGER) with
\* max_rows + 1 rows, one of them NULL.  "blob":
\* the same, but a row of t holds a BLOB in its TEXT column (SQLite types are
\* per value, not per column).  "empty": a file with no table.  "odd": the
\* tables of "plain" after a table "drop-outs" (g TEXT) with one row, a name
\* that has to be quoted in a statement.  "wide": a table wide (g TEXT,
\* updated_at TEXT and seven REAL columns c3..c9) with one row, a table
\* created_samples (g TEXT) with one row, the tables of "plain", and eight
\* tables s1..s8 (g TEXT) without rows: twelve tables, one of nine columns.
StoreConfigs == {"plain", "blob", "empty", "odd", "wide"}

\* the name of the i-th small table and of the i-th numeric column of wide
T_s(i) == <<"s", ToString(i)>>
C_c(i) == <<"c", ToString(i)>>
SmallTables == {T_s(i) : i \in 1..8}

TableNames(cfg) ==
    IF cfg = "empty" THEN <<>>
    ELSE IF cfg = "odd" THEN <<T_odd, T_t, T_big>>
    ELSE IF cfg = "wide"
    THEN <<T_wide, T_created, T_t, T_big>> \o [i \in 1..8 |-> T_s(i)]
    ELSE <<T_t, T_big>>

TableColumns(cfg, tb) ==
    IF tb = T_wide
    THEN << [name |-> C_g, type |-> TY_TEXT], [name |-> C_upd, type |-> TY_TEXT] >>
           \o [i \in 1..7 |-> [name |-> C_c(i + 2), type |-> TY_REAL]]
    ELSE IF tb \in {T_odd, T_created} \cup SmallTables
    THEN << [name |-> C_g, type |-> TY_TEXT] >>
    ELSE IF tb = T_t
    THEN << [name |-> C_g, type |-> TY_TEXT],
            [name |-> C_x, type |-> TY_REAL],
            [name |-> C_y, type |-> TY_REAL] >>
    ELSE << [name |-> C_n, type |-> TY_INTEGER] >>

ColumnNames(cfg, tb) ==
    [i \in 1..Len(TableColumns(cfg, tb)) |-> TableColumns(cfg, tb)[i].name]

\* A row as dict(row) gives it: the (column, value) pairs in column order.
Pair(k, v) == [k |-> k, v |-> v]

\* dict.keys(), key in dict, dict.get(key) (None: <<>>, a value v: <<v>>)
Keys(d) == [i \in 1..Len(d) |-> d[i].k]
HasKey(d, k) == \E i \in 1..Len(d) : d[i].k = k
Get(d, k) ==
    IF HasKey(d, k) THEN <<d[CHOOSE i \in 1..Len(d) : d[i].k = k].v>> ELSE <<>>
\* d[key] = value
Put(d, k, v) ==
    IF HasKey(d, k)
    THEN [i \in 1..Len(d) |-> IF d[i].k = k THEN Pair(k, v) ELSE d[i]]
    ELSE Append(d, Pair(k, v))

TableRows(cfg, tb) ==
    IF tb = T_wide
    THEN << << Pair(C_g, Val("str", <<"BRCA1">>)),
               Pair(C_upd, Val("str", <<"2024-01-01">>)) >>
              \o [i \in 1..7 |-> Pair(C_c(i + 2), Val("float", <<"1.5">>))] >>
    ELSE IF tb \in SmallTables THEN <<>>
    ELSE IF tb \in {T_odd, T_created}
    THEN << << Pair(C_g, Val("str", <<"a">>)) >> >>
    ELSE IF tb = T_t
    THEN << << Pair(C_g, Val("str", <<"BRCA1">>)),
               Pair(C_x, Val("float", <<"1.5">>)),
               Pair(C_y, Val("float", <<"0",".","0","1">>)) >>,
            << Pair(C_g, IF cfg = "blob" THEN Val("bytes", <<"b'\\x00'">>)
                                         ELSE Val("str", <<"TP53">>)),
               Pair(C_x, Val("float", <<"-2.0">>)),
               Pair(C_y, Val("float", <<"0",".","2">>)) >>,
            << Pair(C_g, Val("str", <<"MYC">>)),
               Pair(C_x, Val("float", <<"0.5">>)),
               Pair(C_y, Val("float", <<"0",".","0","5">>)) >>,
            << Pair(C_g, Val("str", <<"EGFR">>)),
               Pair(C_x, Val("float", <<"1.0">>)),
               Pair(C_y, PyNone) >>,
            << Pair(C_g, Val("str", <<"KRAS">>)),
               Pair(C_x, Val("float", <<"2.0">>)),
               Pair(C_y, Val("str", <<"N","A">>)) >>,
            << Pair(C_g, Val("str", <<"BRCA1">>)),
               Pair(C_x, Val("float", <<"0.1">>)),
               Pair(C_y, Val("float", <<"0",".","0","4","9">>)) >>,
            << Pair(C_g, Val("str", <<"PTEN">>)),
               Pair(C_x, Val("float", <<"0.3">>)),
               Pair(C_y, Val("float", <<"0",".","0","5","1">>)) >> >>
    ELSE [i \in 1..(max_rows + 1) |->
            << Pair(C_n, IF i = 2 THEN PyNone ELSE Val("int", <<ToString(i)>>)) >>]

\* The statements a caller of the gateway sends in the model.
Q_t ==   \* select * from t
    <<"s","e","l","e","c","t"," ","*"," ","f","r","o","m"," ","t">>
Q_big ==   \* select n from big
    <<"s","e","l","e","c","t"," ","n"," ","f","r","o","m"," ","b","i","g">>
Q_empty ==   \* select * from t where 0
    <<"s","e","l","e","c","t"," ","*"," ","f","r","o","m"," ","t"," ","w","h","e","r","e"," ","0">>
Q_nope ==   \* select * from nope
    <<"s","e","l","e","c","t"," ","*"," ","f","r","o","m"," ","n","o","p","e">>
Q_col ==   \* select q from t
    <<"s","e","l","e","c","t"," ","q"," ","f","r","o","m"," ","t">>
Q_typo ==   \* selec
    <<"s","e","l","e","c">>
Q_begin ==   \* begin
    <<"b","e","g","i","n">>
Q_drop ==   \* Drop table t
    <<"D","r","o","p"," ","t","a","b","l","e"," ","t">>
Q_upd ==   \* select updated from t
    <<"s","e","l","e","c","t"," ","u","p","d","a","t","e","d"," ","f","r","o","m"," ","t">>

Queries == {Q_t, Q_big, Q_empty, Q_nope, Q_col, Q_typo, Q_begin, Q_drop, Q_upd}

\* The statements the tools build themselves.
Q_master ==   \* SELECT name FROM sqlite_master WHERE type='table'
    <<"S","E","L","E","C","T"," ","n","a","m","e"," ","F","R","O","M"," ","s","q","l","i","t","e","_","m","a","s","t","e","r"," ","W","H","E","R","E"," ","t","y","p","e","=","'","t","a","b","l","e","'">>
PragmaHead ==   \* PRAGMA table_info('
    <<"P","R","A","G","M","A"," ","t","a","b","l","e","_","i","n","f","o","(","'">>
PragmaTail ==   \* ');
    <<"'",")",";">>
DistinctHead ==   \* SELECT DISTINCT "
    <<"S","E","L","E","C","T"," ","D","I","S","T","I","N","C","T"," ","\"">>
DistinctMid ==   \* " FROM "
    <<"\""," ","F","R","O","M"," ","\"">>
DistinctTail ==   \* " LIMIT 5;
    <<"\""," ","L","I","M","I","T"," ","5",";">>

\* f"PRAGMA table_info('{table}');"
PragmaText(tb) == PragmaHead \o tb \o PragmaTail
\* f'SELECT DISTINCT "{col}" FROM "{table}" LIMIT 5;'
DistinctText(col, tb) == DistinctHead \o col \o DistinctMid \o tb \o DistinctTail

\* the messages of sqlite3 and of Python
E_no_such_table ==   \* no such table:
    <<"n","o"," ","s","u","c","h"," ","t","a","b","l","e",":"," ">>
E_no_such_column ==   \* no such column:
    <<"n","o"," ","s","u","c","h"," ","c","o","l","u","m","n",":"," ">>
E_syntax ==   \* near "selec": syntax error
    <<"n","e","a","r"," ","\"","s","e","l","e","c","\"",":"," ","s","y","n","t","a","x"," ","e","r","r","o","r">>
E_closed ==   \* Cannot operate on a closed database.
    <<"C","a","n","n","o","t"," ","o","p","e","r","a","t","e"," ","o","n"," ","a"," ","c","l","o","s","e","d"," ","d","a","t","a","b","a","s","e",".">>
E_near_drop ==   \* near "drop": syntax error
    <<"n","e","a","r"," ","\"","d","r","o","p","\"",":"," ","s","y","n","t","a","x"," ","e","r","r","o","r">>
E_not_iterable ==   \* 'NoneType' object is not iterable
    <<"'","N","o","n","e","T","y","p","e","'"," ","o","b","j","e","c","t"," ","i","s"," ","n","o","t"," ","i","t","e","r","a","b","l","e">>
E_not_serializable ==
    <<"Object of type bytes is not JSON serializable">>

\* the names the statements of the model mention
KnownTables == {T_t, T_big, T_nope, T_odd, T_wide, T_created} \cup SmallTables
KnownColumns == {C_g, C_x, C_y, C_n, C_upd}

\* What the statement asks for, as SQLite parses it.
Meaning(text) ==
    CASE text = Q_t     -> [kind |-> "select", table |-> T_t, cols |-> <<>>, some |-> TRUE]
      [] text = Q_big   -> [kind |-> "select", table |-> T_big, cols |-> <<C_n>>, some |-> TRUE]
      [] text = Q_empty -> [kind |-> "select", table |-> T_t, cols |-> <<>>, some |-> FALSE]
      [] text = Q_nope  -> [kind |-> "select", table |-> T_nope, cols |-> <<>>, some |-> TRUE]
      [] text = Q_col   -> [kind |-> "select", table |-> T_t, cols |-> <<C_q>>, some |-> TRUE]
      [] text = Q_upd   -> [kind |-> "select", table |-> T_t, cols |-> <<<<"u","p","d","a","t","e","d">>>>, some |-> TRUE]
      [] text = Q_begin -> [kind |-> "no result set", table |-> <<>>, cols |-> <<>>, some |-> FALSE]
      [] text = Q_drop  -> [kind |-> "no result set", table |-> T_t, cols |-> <<>>, some |-> FALSE]
      [] text = Q_master -> [kind |-> "master", table |-> <<>>, cols |-> <<K_name>>, some |-> TRUE]
      [] \E tb \in KnownTables : text = PragmaText(tb) ->
            [kind |-> "pragma",
             table |-> CHOOSE tb \in KnownTables : text = PragmaText(tb),
             cols |-> <<>>, some |-> TRUE]
      [] \E tb \in KnownTables, c \in KnownColumns : text = DistinctText(c, tb) ->
            LET p == CHOOSE p \in KnownTables \X KnownColumns :
                        text = DistinctText(p[2], p[1])
            IN  [kind |-> "distinct", table |-> p[1], cols |-> <<p[2]>>, some |-> TRUE]
      [] OTHER -> [kind |-> "syntax error", table |-> <<>>, cols |-> <<>>, some |-> FALSE]

\* what a cursor holds after execute(): the exception raised (none: <<>>),
\* whether description is None, the column names and the rows
Cursor(exc, none, names, rows) ==
    [exc |-> exc, description_none |-> none, columns |-> names, rows |-> rows]

IsTable(cfg, tb) == tb \in Range(TableNames(cfg))

\* a row restricted to the named columns, in their order
Project(row, names) == [i \in 1..Len(names) |-> Pair(names[i], Get(row, names[i])[1])]

\* the first occurrences of the values of s, in order
RECURSIVE Distinct(_)
Distinct(s) ==
    IF s = <<>> THEN <<>>
    ELSE LET add(r, x) == IF x \in Range(r) THEN r ELSE Append(r, x)
         IN  add(Distinct(SubSeq(s, 1, Len(s) - 1)), s[Len(s)])

FirstN(s, n) == SubSeq(s, 1, IF Len(s) < n THEN Len(s) ELSE n)

\* the name can stand in a statement without quotes (the tables of the model
\* have no name that is a keyword on its own)
IsBareName(tb) == \A i \in 1..Len(tb) : IsWord(tb[i])

PragmaColumns == <<K_cid, K_name, K_type, K_notnull, K_dflt_value, K_pk>>

\* cursor.execute(text) on an open connection to the file
SqliteExecute(cfg, text) ==
    LET answer(m) ==
        CASE m.kind = "syntax error" -> Cursor(E_syntax, TRUE, <<>>, <<>>)
          [] m.kind = "no result set" -> Cursor(<<>>, TRUE, <<>>, <<>>)
          [] m.kind = "master" ->
                Cursor(<<>>, FALSE, <<K_name>>,
                       [i \in 1..Len(TableNames(cfg)) |->
                            << Pair(K_name, Val("str", TableNames(cfg)[i])) >>])
          [] m.kind = "pragma" ->
                Cursor(<<>>, FALSE, PragmaColumns,
                       IF IsTable(cfg, m.table)
                       THEN [i \in 1..Len(TableColumns(cfg, m.table)) |->
                                << Pair(K_cid, Val("int", <<ToString(i - 1)>>)),
                                   Pair(K_name, Val("str", TableColumns(cfg, m.table)[i].name)),
                                   Pair(K_type, Val("str", TableColumns(cfg, m.table)[i].type)),
                                   Pair(K_notnull, Val("int", <<"0">>)),
                                   Pair(K_dflt_value, PyNone),
                                   Pair(K_pk, Val("int", <<"0">>)) >>]
                       ELSE <<>>)
          [] m.kind = "distinct" ->
                IF ~IsTable(cfg, m.table) THEN Cursor(E_no_such_table \o m.table, TRUE, <<>>, <<>>)
                ELSE IF m.cols[1] \notin Range(ColumnNames(cfg, m.table))
                THEN Cursor(E_no_such_column \o m.cols[1], TRUE, <<>>, <<>>)
                ELSE LET all == [i \in 1..Len(TableRows(cfg, m.table)) |->
                                    Project(TableRows(cfg, m.table)[i], m.cols)]
                     IN  Cursor(<<>>, FALSE, m.cols, FirstN(Distinct(all), 5))
          [] OTHER ->
                IF ~IsTable(cfg, m.table) THEN Cursor(E_no_such_table \o m.table, TRUE, <<>>, <<>>)
                ELSE LET names == IF m.cols = <<>> THEN ColumnNames(cfg, m.table) ELSE m.cols
                     IN  IF \E i \in 1..Len(names) : names[i] \notin Range(ColumnNames(cfg, m.table))
                         THEN Cursor(E_no_such_column
                                       \o names[CHOOSE i \in 1..Len(names) :
                                                  names[i] \notin Range(ColumnNames(cfg, m.table))],
                                     TRUE, <<>>, <<>>)
                         ELSE Cursor(<<>>, FALSE, names,
                                     IF m.some
                                     THEN [i \in 1..Len(TableRows(cfg, m.table)) |->
                                              Project(TableRows(cfg, m.table)[i], names)]
                                     ELSE <<>>)
    IN  answer(Meaning(text))

----------------------------------------------------------------------------
(* database.py: RNAseqDatabase                                              *)

\* Python's None and a present value, for a slot that may hold None
None == <<>>
Some(x) == <<x>>

\* What a call leaves behind: the value returned (ret), the text of the
\* exception that escaped the call (raised; <<>> when the call returned),
\* the connection and its row_factory after the call, and the calls made to
\* sqlite3 during it (log), in order.
Outcome(ret, raised, conn, rf, log) ==
    [ret |-> ret, raised |-> raised, connection |-> conn, row_factory |-> rf, log |-> log]

KW_DROP ==   \* DROP
    <<"D","R","O","P">>
KW_DELETE ==   \* DELETE
    <<"D","E","L","E","T","E">>
KW_INSERT ==   \* INSERT
    <<"I","N","S","E","R","T">>
KW_UPDATE ==   \* UPDATE
    <<"U","P","D","A","T","E">>
KW_ALTER ==   \* ALTER
    <<"A","L","T","E","R">>
KW_CREATE ==   \* CREATE
    <<"C","R","E","A","T","E">>

dangerous_keywords == <<KW_DROP, KW_DELETE, KW_INSERT, KW_UPDATE, KW_ALTER, KW_CREATE>>

\* any(keyword in query.upper() for keyword in dangerous_keywords)
IsDangerous(query) ==
    LET any(upper) == \E i \in 1..Len(dangerous_keywords) : Contains(upper, dangerous_keywords[i])
    IN  any(Upper(query))

\* Mutation of connect: a failed sqlite3.connect is tried a second time.
connect_twice(conn, rf, reachable) ==
    IF reachable
    THEN Outcome([bool |-> TRUE], <<>>, "open", "None", <<"connect">>)
    ELSE Outcome([bool |-> FALSE], <<>>, conn, rf, <<"connect", "connect">>)

\* connect(): sqlite3.connect opens the file, or raises when the file cannot
\* be opened (reachable = FALSE); the exception is caught and False returned.
connect(conn, rf, reachable) ==
    IF reachable
    THEN Outcome([bool |-> TRUE], <<>>, "open", "None", <<"connect">>)
    ELSE Outcome([bool |-> FALSE], <<>>, conn, rf, <<"connect">>)

\* the try block of execute_query, run on a connection that is not None:
\* exc is the exception raised inside it (<<>>: none, and ret is returned)
TryResult(exc, ret, rf, log) == [exc |-> exc, ret |-> ret, row_factory |-> rf, log |-> log]

\* Mutation of execute_query_try: a statement without a result set is a
\* success of no rows that carries a note in "error".
execute_query_try_lenient(conn, rf, cfg, query) ==
    IF IsDangerous(query)
    THEN TryResult(<<>>, [error |-> <<"Only SELECT queries are allowed">>], rf, <<>>)
    ELSE IF conn = "closed"
    THEN TryResult(E_closed, [error |-> <<>>], "Row", <<"cursor">>)
    ELSE LET fetch(cur) ==
             IF cur.exc # <<>>
             THEN TryResult(cur.exc, [error |-> <<>>], "Row", <<"cursor", "execute">>)
             ELSE IF cur.description_none
             THEN TryResult(<<>>,
                            [success |-> TRUE, data |-> <<>>, columns |-> <<>>,
                             row_count |-> 0, error |-> E_not_iterable],
                            "Row", <<"cursor", "execute">>)
             ELSE TryResult(<<>>,
                            [success |-> TRUE, data |-> cur.rows,
                             columns |-> cur.columns, row_count |-> Len(cur.rows)],
                            "Row", <<"cursor", "execute", "fetchall">>)
         IN  fetch(SqliteExecute(cfg, query))

\* the try block of execute_query: the denylist, then cursor, execute,
\* description, fetchall and dict(row) for every row
execute_query_try(conn, rf, cfg, query) ==
    IF IsDangerous(query)
    THEN TryResult(<<>>, [error |-> <<"Only SELECT queries are allowed">>], rf, <<>>)
    ELSE IF conn = "closed"
    THEN TryResult(E_closed, [error |-> <<>>], "Row", <<"cursor">>)
    ELSE LET fetch(cur) ==
             IF cur.exc # <<>>
             THEN TryResult(cur.exc, [error |-> <<>>], "Row", <<"cursor", "execute">>)
             ELSE IF cur.description_none
             THEN TryResult(E_not_iterable, [error |-> <<>>], "Row", <<"cursor", "execute">>)
             ELSE TryResult(<<>>,
                            [success |-> TRUE, data |-> cur.rows,
                             columns |-> cur.columns, row_count |-> Len(cur.rows)],
                            "Row", <<"cursor", "execute", "fetchall">>)
         IN  fetch(SqliteExecute(cfg, query))

\* Mutation of execute_query_except: the handler is missing and the exception
\* of the try block leaves execute_query.
execute_query_reraise(t, conn, log) ==
    IF t.exc # <<>>
    THEN Outcome([error |-> <<>>], t.exc, conn, t.row_factory, log \o t.log)
    ELSE Outcome(t.ret, <<>>, conn, t.row_factory, log \o t.log)

\* except Exception as e: return {"error": f"Query execution failed: {str(e)}"}
execute_query_except(t, conn, log) ==
    IF t.exc # <<>>
    THEN Outcome([error |-> <<"Query execution failed: ">> \o t.exc], <<>>,
                 conn, t.row_factory, log \o t.log)
    ELSE Outcome(t.ret, <<>>, conn, t.row_factory, log \o t.log)

\* execute_query(query)
execute_query(conn, rf, cfg, reachable, query) ==
    LET connected(c) ==
        IF conn = "None" /\ ~c.ret.bool
        THEN Outcome([error |-> <<"Database connection failed">>], <<>>,
                     c.connection, c.row_factory, c.log)
        ELSE execute_query_except(
                 execute_query_try(c.connection, c.row_factory, cfg, query),
                 c.connection, c.log)
    IN  connected(IF conn = "None" THEN connect(conn, rf, reachable)
                  ELSE Outcome([bool |-> TRUE], <<>>, conn, rf, <<>>))

\* get_table_names(): the statement is sent to the cursor directly
get_table_names(conn, rf, cfg, reachable) ==
    LET connected(c) ==
        IF conn = "None" /\ ~c.ret.bool
        THEN Outcome([list |-> <<>>], <<>>, c.connection, c.row_factory, c.log)
        ELSE IF c.connection = "closed"
        THEN Outcome([list |-> <<>>], <<>>, c.connection, "None", c.log \o <<"cursor">>)
        ELSE Outcome([list |-> TableNames(cfg)], <<>>, c.connection, "None",
                     c.log \o <<"cursor", "execute", "fetchall">>)
    IN  connected(IF conn = "None" THEN connect(conn, rf, reachable)
                  ELSE Outcome([bool |-> TRUE], <<>>, conn, rf, <<>>))

\* f"SELECT * FROM {table} LIMIT 5;"
sample_query(tb) == <<"SELECT * FROM ">> \o tb \o <<" LIMIT 5;">>

\* Mutation of get_table_info: the rows are read in the row format the last
\* caller left, and nothing is listed when that is not the tuple format.
get_table_info_stale_factory(conn, rf, cfg, reachable) ==
    Outcome([success |-> TRUE,
             tables |-> IF rf = "None"
                        THEN [i \in 1..Len(TableNames(cfg)) |->
                                 [table |-> TableNames(cfg)[i],
                                  columns |-> TableColumns(cfg, TableNames(cfg)[i]),
                                  sample_query |-> sample_query(TableNames(cfg)[i])]]
                        ELSE <<>>],
            <<>>, conn, "None", <<>>)

\* get_table_info(): one PRAGMA table_info({table}) per table of
\* get_table_names(), the name unquoted, all inside one try; on a closed
\* connection get_table_names() returns [] and the loop body never runs
get_table_info(conn, rf, cfg, reachable) ==
    LET connected(c) ==
        IF conn = "None" /\ ~c.ret.bool
        THEN Outcome([error |-> <<"Database connection failed">>], <<>>,
                     c.connection, c.row_factory, c.log)
        ELSE LET calls(k) == [i \in 1..(2 * k) |-> IF i % 2 = 1 THEN "cursor" ELSE "execute"]
                 listed(n, tables) ==
                     IF \E k \in 1..Len(tables) : ~IsBareName(tables[k])
                     THEN Outcome([error |-> <<"Failed to get table info: ">> \o E_near_drop],
                                  <<>>, n.connection, "None",
                                  c.log \o n.log
                                    \o calls(CHOOSE k \in 1..Len(tables) :
                                               /\ ~IsBareName(tables[k])
                                               /\ \A j \in 1..(k - 1) : IsBareName(tables[j])))
                     ELSE Outcome([success |-> TRUE,
                                   tables |-> [i \in 1..Len(tables) |->
                                       [table |-> tables[i],
                                        columns |-> TableColumns(cfg, tables[i]),
                                        sample_query |-> sample_query(tables[i])]]],
                                  <<>>, n.connection, "None",
                                  c.log \o n.log \o calls(Len(tables)))
                 named(n) == listed(n, n.ret.list)
             IN  named(get_table_names(c.connection, "None", cfg, reachable))
    IN  connected(IF conn = "None" THEN connect(conn, rf, reachable)
                  ELSE Outcome([bool |-> TRUE], <<>>, conn, rf, <<>>))

\* close(): the handle stays set
close(conn, rf) ==
    Outcome([none |-> TRUE], <<>>, IF conn = "None" THEN "None" ELSE "closed", rf, <<>>)

----------------------------------------------------------------------------
(* tools.py: the result cache LAST_QUERY_DATA and the tools of create_tools *)

\* LAST_QUERY_DATA = {"data": None, "query_info": "", "timestamp": None}
EmptyCache == [data |-> None, query_info |-> <<>>, timestamp |-> None]

\* Mutation of store_query_data: the rows of the preview are stored.
store_query_preview(data, query_info, t) ==
    [data |-> <<SubSeq(data, 1, IF Len(data) < max_rows THEN Len(data) ELSE max_rows)>>,
     query_info |-> query_info, timestamp |-> <<t>>]

\* store_query_data(data, query_info), called at time t
store_query_data(data, query_info, t) ==
    [data |-> Some(data), query_info |-> query_info, timestamp |-> Some(t)]

\* bool(x) of a slot holding None or a list
Truthy(slot) == slot # None /\ slot[1] # <<>>

\* the freshness window of the plot and report tools, in seconds
StaleAfter == 120

\* What a tool call leaves behind: the observation returned (ret), the text of
\* the exception that escaped the tool (raised), the connection after, the
\* sqlite3 calls made, the cache after, the files written, and the result the
\* tool got from execute_query (dbres; [none |-> TRUE] if it asked for none).
ToolOut(ret, raised, conn, rf, log, cache, wrote, dbres) ==
    [ret |-> ret, raised |-> raised, connection |-> conn, row_factory |-> rf,
     log |-> log, cache |-> cache, wrote |-> wrote, dbres |-> dbres]

NoResult == [none |-> TRUE]
Str(text) == [str |-> text]

Sep ==   \* " | "
    <<" ","|"," ">>
\* Mutation of NoSuchTable: the text is looked for as sqlite3 could
\* capitalise it, in an error that has been lower-cased.
NoSuchTableCapital ==   \* No such table
    <<"N","o"," ","s","u","c","h"," ","t","a","b","l","e">>
NoSuchTable ==   \* no such table
    <<"n","o"," ","s","u","c","h"," ","t","a","b","l","e">>
NoSuchColumn ==   \* no such column
    <<"n","o"," ","s","u","c","h"," ","c","o","l","u","m","n">>

RECOMMENDATION_tools ==
    <<"RECOMMENDATION: Use Database_Schema tool first to understand the data structure, then use Sample_Column_Values tool to see actual data values before writing queries.">>

\* str(row.get(col, ""))
Cell(row, col) == IF HasKey(row, col) THEN Get(row, col)[1].v ELSE <<>>

\* one line of the preview per row: the cells joined by " | "
RECURSIVE PreviewLines(_, _)
PreviewLines(rows, columns) ==
    IF rows = <<>> THEN <<>>
    ELSE Join([i \in 1..Len(columns) |-> Cell(rows[1], columns[i])], Sep) \o <<"\n">>
           \o PreviewLines(Tail(rows), columns)

\* the head of the preview: how many rows, and whether all are shown
PreviewHead(result) ==
    <<"Query returned ", ToString(result.row_count), " rows. ">>
      \o (IF result.row_count > max_rows
          THEN <<"Showing first ", ToString(max_rows), " rows:\n">>
          ELSE <<"Here are all the results:\n">>)

\* the table of the preview: header, rule, the first max_rows rows
PreviewTable(result) ==
    <<"\n">> \o Join(result.columns, Sep) \o <<"\n">>
      \o Repeat("-", Len(Join(result.columns, Sep))) \o <<"\n">>
      \o PreviewLines(FirstN(result.data, max_rows), result.columns)

\* Mutation of has_rows: every successful result counts, the empty one too.
has_result(result) == result.row_count >= 0

\* result.get("row_count", 0) > 0
has_rows(result) == result.row_count > 0

\* tools.py sql_query_tool(query); t is the time store_query_data reads
tools_sql_query_tool(cache, conn, rf, cfg, reachable, query, t) ==
    LET observe(r, result) ==
        IF r.raised # <<>>
        THEN ToolOut(Str(<<>>), r.raised, r.connection, r.row_factory, r.log, cache, {}, NoResult)
        ELSE IF "error" \in DOMAIN result
        THEN ToolOut(Str(<<"Query failed: ">> \o result.error \o <<"\n">>
                           \o (IF Contains(Lower(result.error), NoSuchTable)
                               THEN RECOMMENDATION_tools ELSE <<>>)),
                     <<>>, r.connection, r.row_factory, r.log, cache, {}, result)
        ELSE ToolOut(Str(PreviewHead(result)
                           \o (IF result.data # <<>>
                               THEN PreviewTable(result)
                                      \o <<"\nThis is the actual data from the database. Use this to answer the user's question.">>
                               ELSE <<>>)),
                     <<>>, r.connection, r.row_factory, r.log,
                     IF has_rows(result)
                     THEN store_query_data(result.data, query, t) ELSE cache,
                     {}, result)
        executed(r) == observe(r, r.ret)
    IN  executed(execute_query(conn, rf, cfg, reachable, query))

\* the lines of the schema listing for one table
RECURSIVE SchemaColumns(_)
SchemaColumns(columns) ==
    IF columns = <<>> THEN <<>>
    ELSE <<"  - ">> \o columns[1].name \o <<" (">> \o columns[1].type \o <<")\n">>
           \o SchemaColumns(Tail(columns))

\* the schema listing stops after this many tables
max_tables == 10

RECURSIVE tools_SchemaTables(_, _, _)
tools_SchemaTables(tables, displayed, table_count) ==
    IF tables = <<>> THEN <<>>
    ELSE IF displayed >= max_tables
    THEN <<"... and ", ToString(table_count - displayed), " more tables\n">>
    ELSE <<"Table: ">> \o tables[1].table \o <<"\nKey columns:\n">>
           \o SchemaColumns(tables[1].columns)
           \o <<"Sample query: ">> \o tables[1].sample_query \o <<"\n\n">>
           \o tools_SchemaTables(Tail(tables), displayed + 1, table_count)

\* tools.py database_schema_tool(input_str)
tools_database_schema_tool(cache, conn, rf, cfg, reachable) ==
    LET observe(r, result) ==
        IF "error" \in DOMAIN result
        THEN ToolOut(Str(<<"Error retrieving schema: ">> \o result.error), <<>>,
                     r.connection, r.row_factory, r.log, cache, {}, NoResult)
        ELSE ToolOut(Str(<<"Available tables and their schemas:\n\n">>
                           \o tools_SchemaTables(result.tables, 0, Len(result.tables))),
                     <<>>, r.connection, r.row_factory, r.log, cache, {}, NoResult)
        listed(r) == observe(r, r.ret)
    IN  listed(get_table_info(conn, rf, cfg, reachable))

\* The loop state of the sample-values tools: the connection, the sqlite3
\* calls made so far, and all_sample_values (ordered "table.column" -> values).
LoopState(conn, rf, log, values) ==
    [connection |-> conn, row_factory |-> rf, log |-> log, values |-> values]

\* all_sample_values at the end of the loop, kept with the call beside the
\* text returned
Sampled(values) == [sampled |-> values]

\* Mutation of text_columns: the declared type is not looked at.
RECURSIVE every_column(_)
every_column(data) ==
    IF data = <<>> THEN <<>>
    ELSE (IF HasKey(data[1], K_name) THEN <<Get(data[1], K_name)[1].v>> ELSE <<>>)
           \o every_column(Tail(data))

\* [d['name'] for d in info_result.get('data', []) if ... 'text' in d.get('type', '').lower()]
RECURSIVE text_columns(_)
text_columns(data) ==
    IF data = <<>> THEN <<>>
    ELSE (IF HasKey(data[1], K_name) /\ HasKey(data[1], K_type)
             /\ Contains(Lower(Get(data[1], K_type)[1].v), K_text)
          THEN <<Get(data[1], K_name)[1].v>> ELSE <<>>)
           \o text_columns(Tail(data))

\* [d.get(col) for d in values_result['data']]
ColumnValues(data, col) ==
    [i \in 1..Len(data) |-> IF HasKey(data[i], col) THEN Get(data[i], col)[1] ELSE PyNone]

\* for col in text_columns: one SELECT DISTINCT per column through execute_query
RECURSIVE SampleColumns(_, _, _, _, _)
SampleColumns(cols, table, st, cfg, reachable) ==
    IF cols = <<>> THEN st
    ELSE LET sampled(r, got) ==
             SampleColumns(Tail(cols), table,
                 LoopState(r.connection, r.row_factory, st.log \o r.log,
                           IF got
                           THEN Put(st.values, table \o <<".">> \o cols[1],
                                    ColumnValues(r.ret.data, cols[1]))
                           ELSE st.values),
                 cfg, reachable)
             executed(r) == sampled(r, "data" \in DOMAIN r.ret /\ r.ret.data # <<>>)
         IN  executed(execute_query(st.connection, st.row_factory, cfg, reachable,
                                    DistinctText(cols[1], table)))

\* for table in table_names: PRAGMA table_info through execute_query, then the columns
RECURSIVE SampleTables(_, _, _, _)
SampleTables(tables, st, cfg, reachable) ==
    IF tables = <<>> THEN st
    ELSE LET described(r, st1) ==
             SampleTables(Tail(tables),
                 IF "error" \in DOMAIN r.ret /\ r.ret.error # <<>> THEN st1
                 ELSE SampleColumns(text_columns(r.ret.data), tables[1], st1, cfg, reachable),
                 cfg, reachable)
             executed(r) ==
                 described(r, LoopState(r.connection, r.row_factory, st.log \o r.log, st.values))
         IN  executed(execute_query(st.connection, st.row_factory, cfg, reachable,
                                    PragmaText(tables[1])))

\* ', '.join([str(v) for v in values])
ValuesText(values) == Join([i \in 1..Len(values) |-> values[i].v], <<", ">>)

RECURSIVE SampleLines(_)
SampleLines(all) ==
    IF all = <<>> THEN <<>>
    ELSE <<"- ">> \o all[1].k \o <<": ">> \o ValuesText(all[1].v) \o <<"\n">>
           \o SampleLines(Tail(all))

\* tools.py sample_column_values_tool(query)
tools_sample_column_values_tool(cache, conn, rf, cfg, reachable) ==
    LET named(n) ==
        IF n.ret.list = <<>>
        THEN ToolOut(Str(<<"Error: Could not retrieve table names.">>), <<>>,
                     n.connection, n.row_factory, n.log, cache, {}, NoResult)
        ELSE LET sampled(st) ==
                 ToolOut(Str(IF st.values = <<>>
                             THEN <<"Could not find any text columns with sample values.">>
                             ELSE <<"Here are a few sample values from key text columns:\n">>
                                    \o SampleLines(st.values)),
                         <<>>, st.connection, st.row_factory, st.log, cache, {},
                         Sampled(st.values))
             IN  sampled(SampleTables(n.ret.list,
                                      LoopState(n.connection, n.row_factory, n.log, <<>>),
                                      cfg, reachable))
    IN  named(get_table_names(conn, rf, cfg, reachable))

\* the columns of pd.DataFrame(data): the keys of the rows, in order of appearance
RECURSIVE AllKeys(_)
AllKeys(data) == IF data = <<>> THEN <<>> ELSE Keys(data[1]) \o AllKeys(Tail(data))
DfColumns(data) == Distinct(AllKeys(data))

\* a file written by a tool: the directory, the name and what was written
File(dir, name, content) == [dir |-> dir, name |-> name, content |-> content]

\* one field of a line written by DataFrame.to_csv: NaN and None are empty, a
\* text with a comma, a quote or a newline is quoted and its quotes doubled
CsvField(val) ==
    LET RECURSIVE doubled(_)
        doubled(v) ==
            IF v = <<>> THEN <<>>
            ELSE (IF v[1] = "\"" THEN <<"\"", "\"">> ELSE <<v[1]>>) \o doubled(Tail(v))
    IN  IF val.ty = "NoneType" THEN <<>>
        ELSE IF \E i \in 1..Len(val.v) : val.v[i] \in {",", "\"", "\n"}
        THEN <<"\"">> \o doubled(val.v) \o <<"\"">>
        ELSE val.v

\* one line: the fields joined by commas; a line of one empty field is
\* written as "" so that it is not a blank line
CsvLine(fields) ==
    (IF Len(fields) = 1 /\ fields[1] = <<>> THEN <<"\"", "\"">> ELSE Join(fields, <<",">>))
      \o <<"\n">>

\* Mutation of to_csv: the rows of the preview are written.
to_csv_preview(data) ==
    LET RECURSIVE lines(_, _)
        lines(rows, columns) ==
            IF rows = <<>> THEN <<>>
            ELSE CsvLine([j \in 1..Len(columns) |->
                            IF HasKey(rows[1], columns[j])
                            THEN CsvField(Get(rows[1], columns[j])[1]) ELSE <<>>])
                   \o lines(Tail(rows), columns)
        written(columns) ==
            CsvLine([j \in 1..Len(columns) |-> CsvField(Val("str", columns[j]))])
              \o lines(FirstN(data, max_rows), columns)
    IN  written(DfColumns(data))

\* pd.DataFrame(data).to_csv(full_path, index=False): the header and one
\* line per row, a missing key being NaN
to_csv(data) ==
    LET RECURSIVE lines(_, _)
        lines(rows, columns) ==
            IF rows = <<>> THEN <<>>
            ELSE CsvLine([j \in 1..Len(columns) |->
                            IF HasKey(rows[1], columns[j])
                            THEN CsvField(Get(rows[1], columns[j])[1]) ELSE <<>>])
                   \o lines(Tail(rows), columns)
        written(columns) ==
            CsvLine([j \in 1..Len(columns) |-> CsvField(Val("str", columns[j]))])
              \o lines(data, columns)
    IN  written(DfColumns(data))

\* the pieces of s between the separators that stand outside quotes
RECURSIVE CsvScan(_, _, _, _, _)
CsvScan(s, sep, quoted, field, fields) ==
    IF s = <<>> THEN Append(fields, field)
    ELSE IF s[1] = "\""
    THEN CsvScan(Tail(s), sep, ~quoted, Append(field, s[1]), fields)
    ELSE IF s[1] = sep /\ ~quoted
    THEN CsvScan(Tail(s), sep, quoted, <<>>, Append(fields, field))
    ELSE CsvScan(Tail(s), sep, quoted, Append(field, s[1]), fields)

\* pd.read_csv(csv_path): blank lines are skipped, the first line left names
\* the columns, every other line is a row
read_csv(text) ==
    LET unquoted(f) ==
            IF Len(f) >= 2 /\ f[1] = "\"" /\ f[Len(f)] = "\""
            THEN SubSeq(f, 2, Len(f) - 1) ELSE f
        RECURSIVE filled(_)
        filled(lines) ==
            IF lines = <<>> THEN <<>>
            ELSE (IF lines[1] = <<>> THEN <<>> ELSE <<lines[1]>>) \o filled(Tail(lines))
        frame(lines) ==
            IF lines = <<>> THEN [columns |-> <<>>, rows |-> <<>>]
            ELSE [columns |-> [j \in 1..Len(CsvScan(lines[1], ",", FALSE, <<>>, <<>>)) |->
                                 unquoted(CsvScan(lines[1], ",", FALSE, <<>>, <<>>)[j])],
                  rows |-> [i \in 1..(Len(lines) - 1) |->
                              CsvScan(lines[i + 1], ",", FALSE, <<>>, <<>>)]]
    IN  frame(filled(CsvScan(text, "\n", FALSE, <<>>, <<>>)))

\* datetime.now().strftime("%Y%m%d_%H%M%S"): one name per clock second
Stamp(t) == <<ToString(t)>>

\* datetime.now() - None
E_no_timestamp ==
    <<"unsupported operand type(s) for -: 'datetime.datetime' and 'NoneType'">>

M_report_no_data ==
    <<"CSV report creation failed: No data available. You must run a SQL_Query first to get data.">>
M_report_stale ==
    <<"CSV report creation failed: The data from the last query is too old. Please run a new query.">>
M_plot_no_data ==
    <<"No data available. Please run a SQL query first to get data.">>
\* Mutation of M_plot_stale: the text of the check before it.
M_plot_stale_copied ==
    <<"No data available. Please run a SQL query first to get data.">>
M_plot_stale ==
    <<"Data from the last query is too old. Please run a new query.">>
M_plot_unexpected ==
    <<"An unexpected error occurred while creating the plot. Please try again with different parameters.">>

\* What a plot or report tool leaves behind: the observation returned, the
\* exception that escaped, the files written.
Said(text) == [ret |-> Str(text), raised |-> <<>>, wrote |-> {}]
Saved(dir, name, content) ==
    [ret |-> Str(name), raised |-> <<>>, wrote |-> {File(dir, name, content)}]
Raised(exc) == [ret |-> Str(<<>>), raised |-> exc, wrote |-> {}]

\* Mutation of create_csv_report_tool: the check for data is missing.
create_csv_report_unchecked(cache, t, io_ok) ==
    IF cache.timestamp = None THEN Raised(E_no_timestamp)
    ELSE IF t - cache.timestamp[1] > StaleAfter THEN Said(M_report_stale)
    ELSE IF io_ok
    THEN Saved("assets/reports", <<"report_">> \o Stamp(t) \o <<".csv">>, to_csv(cache.data[1]))
    ELSE Said(<<"CSV report creation failed: An error occurred while generating the report. Error: ">>
               \o <<"[Errno 13] Permission denied">>)

\* tools.py create_csv_report_tool(query), called at time t; io_ok: the
\* directory and the file can be written
create_csv_report_tool(cache, t, io_ok) ==
    IF ~Truthy(cache.data) THEN Said(M_report_no_data)
    ELSE IF cache.timestamp = None THEN Raised(E_no_timestamp)
    ELSE IF t - cache.timestamp[1] > StaleAfter THEN Said(M_report_stale)
    ELSE IF io_ok
    THEN Saved("assets/reports", <<"report_">> \o Stamp(t) \o <<".csv">>, to_csv(cache.data[1]))
    ELSE Said(<<"CSV report creation failed: An error occurred while generating the report. Error: ">>
               \o <<"[Errno 13] Permission denied">>)

K_x_column ==   \* x_column
    <<"x","_","c","o","l","u","m","n">>
K_y_column ==   \* y_column
    <<"y","_","c","o","l","u","m","n">>
K_color_column ==   \* color_column
    <<"c","o","l","o","r","_","c","o","l","u","m","n">>
K_size_column ==   \* size_column
    <<"s","i","z","e","_","c","o","l","u","m","n">>
PT_scatter ==   \* scatter
    <<"s","c","a","t","t","e","r">>
PT_pca ==   \* pca
    <<"p","c","a">>
PT_volcano ==   \* volcano
    <<"v","o","l","c","a","n","o">>
PT_heatmap ==   \* heatmap
    <<"h","e","a","t","m","a","p">>
PT_bar ==   \* bar
    <<"b","a","r">>
PT_enrichment ==   \* enrichment
    <<"e","n","r","i","c","h","m","e","n","t">>
PT_dot ==   \* dot
    <<"d","o","t">>
S_None ==   \* None
    <<"N","o","n","e">>

\* the chart types that take an x/y pair, and all the chart types _create_plot draws
XYPlots == {PT_scatter, PT_pca, PT_volcano, PT_bar, PT_enrichment, PT_dot}
KnownPlots == XYPlots \cup {PT_heatmap}

\* ALLOWED_PLOTS, the keys of config/plot_instructions.yaml: the chart types
\* the file configures, or [] when the file is not found
AllowConfigs == {"configured", "not found"}
ALLOWED_PLOTS(acfg) ==
    IF acfg = "configured"
    THEN <<PT_scatter, PT_pca, PT_volcano, PT_heatmap, PT_bar, PT_enrichment, PT_dot>>
    ELSE <<>>

\* for param in parts[1:]: if '=' in param: key, value = param.split('=', 1); ...
RECURSIVE ParseParams(_, _)
ParseParams(parts, params) ==
    IF parts = <<>> THEN params
    ELSE LET split(i) ==
             ParseParams(Tail(parts),
                 IF i = 0 THEN params
                 ELSE Put(params, Strip(SubSeq(parts[1], 1, i - 1)),
                          Strip(SubSeq(parts[1], i + 1, Len(parts[1])))))
         IN  split(FirstIndex(parts[1], "="))

\* _get_required_columns(plot_type, plot_params): None is <<>>, a name n is <<n>>
get_required_columns(plot_type, plot_params) ==
    IF plot_type \in XYPlots
    THEN <<Get(plot_params, K_x_column), Get(plot_params, K_y_column)>>
    ELSE <<>>

\* [col for col in required_columns if col and col not in df.columns]
RECURSIVE missing_columns(_, _)
missing_columns(required, columns) ==
    IF required = <<>> THEN <<>>
    ELSE (IF Truthy(required[1]) /\ required[1][1] \notin Range(columns)
          THEN <<required[1][1]>> ELSE <<>>)
           \o missing_columns(Tail(required), columns)

\* plot_params.get(key) if plot_params.get(key) != 'None' else None
Optional(plot_params, key) ==
    IF Get(plot_params, key) = <<S_None>> THEN None ELSE Get(plot_params, key)

\* a column argument plotly express accepts: None, or the name of a column
PxColumnOk(arg, columns) == arg = None \/ arg[1] \in Range(columns)

\* _create_plot(plot_type, df, plot_params): TRUE when a figure is returned,
\* FALSE when None is.  px_ok: plotly express draws the figure from these
\* arguments and this data without raising.
create_plot_fig(plot_type, columns, plot_params, px_ok) ==
    LET x == Get(plot_params, K_x_column)
        y == Get(plot_params, K_y_column)
        color == Optional(plot_params, K_color_column)
        size == Optional(plot_params, K_size_column)
    IN  CASE plot_type \in {PT_scatter, PT_pca, PT_dot} ->
                PxColumnOk(x, columns) /\ PxColumnOk(y, columns)
                  /\ PxColumnOk(color, columns) /\ PxColumnOk(size, columns) /\ px_ok
          [] plot_type = PT_volcano ->
                \* df_copy[y_col] raises KeyError unless y_col names a column
                y # None /\ y[1] \in Range(columns) /\ PxColumnOk(x, columns) /\ px_ok
          [] plot_type = PT_heatmap -> px_ok
          [] plot_type \in {PT_bar, PT_enrichment} ->
                PxColumnOk(x, columns) /\ PxColumnOk(y, columns)
                  /\ PxColumnOk(color, columns) /\ px_ok
          [] OTHER -> FALSE

\* 0.05, in thousandths
significance_level == 50

\* pd.to_numeric(p, errors='coerce') in thousandths: the number of an int, of
\* a float and of a text that is a decimal numeral, None (NaN) otherwise.
\* Exact for numerals of at most three decimals.
to_numeric(p) ==
    LET digit(c) == CHOOSE n \in 0..9 : ToString(n) = c
        RECURSIVE natural(_)
        natural(ds) ==
            IF ds = <<>> THEN 0
            ELSE 10 * natural(SubSeq(ds, 1, Len(ds) - 1)) + digit(ds[Len(ds)])
        thousandths(ds) == natural(SubSeq(ds \o <<"0", "0", "0">>, 1, 3))
        numeral(body, dot) ==
            IF dot = 0
            THEN (IF body # <<>> /\ Range(body) \subseteq Digits
                  THEN Some(1000 * natural(body)) ELSE None)
            ELSE IF /\ Len(body) > 1
                    /\ Range(SubSeq(body, 1, dot - 1)) \subseteq Digits
                    /\ Range(SubSeq(body, dot + 1, Len(body))) \subseteq Digits
                 THEN Some(1000 * natural(SubSeq(body, 1, dot - 1))
                             + thousandths(SubSeq(body, dot + 1, Len(body))))
                 ELSE None
        signed(v) ==
            IF v # <<>> /\ v[1] = "-"
            THEN (IF numeral(Tail(v), FirstIndex(Tail(v), ".")) = None THEN None
                  ELSE Some(0 - numeral(Tail(v), FirstIndex(Tail(v), "."))[1]))
            ELSE numeral(v, FirstIndex(v, "."))
    IN  IF p.ty \in {"int", "float", "str"} THEN signed(p.v) ELSE None

\* Mutation of significant: the threshold itself counts as significant.
significant_at_level(p) ==
    IF to_numeric(p) # None /\ to_numeric(p)[1] <= significance_level
    THEN "Significant" ELSE "Not Significant"

\* lambda p: 'Significant' if pd.to_numeric(p, errors='coerce') < 0.05 else 'Not Significant'
significant(p) ==
    IF to_numeric(p) # None /\ to_numeric(p)[1] < significance_level
    THEN "Significant" ELSE "Not Significant"

\* the figure _create_plot returns: the chart type, the columns on its axes
\* and, for a volcano chart, the column 'significant' that colours the rows
figure(plot_type, data, plot_params) ==
    [plot_type |-> plot_type,
     x |-> Get(plot_params, K_x_column),
     y |-> Get(plot_params, K_y_column),
     significant |->
        IF plot_type = PT_volcano
        THEN [i \in 1..Len(data) |->
                significant(IF HasKey(data[i], Get(plot_params, K_y_column)[1])
                            THEN Get(data[i], Get(plot_params, K_y_column)[1])[1]
                            ELSE PyNone)]
        ELSE <<>>]

\* Mutation of unknown_plot_type: no chart type is turned away.
every_plot_type_known(plot_type, allowed) == FALSE

\* plot_type not in ALLOWED_PLOTS
unknown_plot_type(plot_type, allowed) == plot_type \notin Range(allowed)

M_plot_not_allowed(plot_type, allowed) ==
    <<"Plot type '">> \o plot_type \o <<"' is not allowed. Allowed types are: ">>
      \o Join(allowed, <<", ">>)
M_missing_columns(missing, columns) ==
    <<"Missing required columns: ">> \o Join(missing, <<", ">>)
      \o <<". Available columns: ">> \o Join(columns, <<", ">>)

\* the part of create_plot_tool after the two checks of the cache
create_plot_request(cache, allowed, t, plot_request, px_ok, io_ok) ==
    LET draw(plot_type, plot_params, columns, missing, name) ==
        IF unknown_plot_type(plot_type, allowed)
        THEN Said(M_plot_not_allowed(plot_type, allowed))
        ELSE IF columns = <<>> THEN Said(<<"No valid data to plot.">>)
        ELSE IF missing # <<>>
        THEN Said(M_missing_columns(missing, columns))
        ELSE IF ~create_plot_fig(plot_type, columns, plot_params, px_ok)
        THEN Said(<<"Failed to create ">> \o plot_type \o <<" plot. Please check your parameters.">>)
        ELSE IF io_ok
        THEN Saved("assets/plots", name, figure(plot_type, cache.data[1], plot_params))
        ELSE Said(<<"Failed to save the plot.">>)
        check(plot_type, plot_params, columns) ==
            draw(plot_type, plot_params, columns,
                 missing_columns(get_required_columns(plot_type, plot_params), columns),
                 plot_type \o <<"_">> \o Stamp(t) \o <<".html">>)
        parse(parts) ==
            check(Lower(Strip(parts[1])), ParseParams(Tail(parts), <<>>),
                  DfColumns(cache.data[1]))
    IN  parse(Split(plot_request, "|"))

\* Mutation of create_plot_tool: the chart type is validated before the age
\* of the data.
create_plot_tool_type_first(cache, allowed, t, plot_request, px_ok, io_ok) ==
    IF ~Truthy(cache.data) THEN Said(M_plot_no_data)
    ELSE IF unknown_plot_type(Lower(Strip(Split(plot_request, "|")[1])), allowed)
    THEN create_plot_request(cache, allowed, t, plot_request, px_ok, io_ok)
    ELSE IF cache.timestamp = None THEN Said(M_plot_unexpected)
    ELSE IF t - cache.timestamp[1] > StaleAfter THEN Said(M_plot_stale)
    ELSE create_plot_request(cache, allowed, t, plot_request, px_ok, io_ok)

\* tools.py create_plot_tool(plot_request), called at time t; the TypeError of
\* a missing timestamp is caught by the tool's `except Exception`
create_plot_tool(cache, allowed, t, plot_request, px_ok, io_ok) ==
    IF ~Truthy(cache.data) THEN Said(M_plot_no_data)
    ELSE IF cache.timestamp = None THEN Said(M_plot_unexpected)
    ELSE IF t - cache.timestamp[1] > StaleAfter THEN Said(M_plot_stale)
    ELSE create_plot_request(cache, allowed, t, plot_request, px_ok, io_ok)

----------------------------------------------------------------------------
(* plotter.py: RNAseqPlotter, and agent.py: the tools of RNAseqAgent        *)

\* RNAseqPlotter.store_query_data(data, query_info), called at time t
plotter_store_query_data(data, query_info, t) ==
    Some([data |-> data, timestamp |-> t, query_info |-> query_info])

\* RNAseqAgent.context_state as __init__ sets it; the plot tool adds
\* last_plot_created and ask adds last_response_successful
InitContext ==
    [stage |-> "start", last_query_successful |-> FALSE,
     current_data_context |-> None, conversation_count |-> 0,
     last_plot_created |-> None, last_response_successful |-> None]

\* What a tool of the agent leaves behind: as ToolOut (cache is
\* plotter.last_query_data), and context_state after the call.
AgentOut(out, cs) == [out |-> out, context_state |-> cs]

K_from ==   \* from
    <<"f","r","o","m">>

\* the first index >= i of q that holds no white space (Len(q) + 1: none)
RECURSIVE SkipSpace(_, _)
SkipSpace(q, i) == IF i <= Len(q) /\ IsSpace(q[i]) THEN SkipSpace(q, i + 1) ELSE i
\* the last index of the run of word characters that starts at i
RECURSIVE WordEnd(_, _)
WordEnd(q, i) == IF i + 1 <= Len(q) /\ IsWord(q[i + 1]) THEN WordEnd(q, i + 1) ELSE i

\* FROM\s+(\w+) matches at i
FromAt(q, i) ==
    /\ i + 4 <= Len(q)
    /\ Lower(SubSeq(q, i, i + 3)) = K_from
    /\ IsSpace(q[i + 4])
    /\ SkipSpace(q, i + 4) <= Len(q)
    /\ IsWord(q[SkipSpace(q, i + 4)])

\* re.search(r'FROM\s+(\w+)', query, re.IGNORECASE): group(1) of the leftmost match
table_match(q) ==
    IF \E i \in 1..Len(q) : FromAt(q, i)
    THEN LET group(b) == Some(SubSeq(q, b, WordEnd(q, b)))
             leftmost(i) == group(SkipSpace(q, i + 4))
         IN  leftmost(CHOOSE i \in 1..Len(q) : FromAt(q, i) /\ \A j \in 1..(i - 1) : ~FromAt(q, j))
    ELSE None

RECOMMENDATION_agent ==
    <<"\nRECOMMENDATION: Use Database_Schema tool first to understand the data structure, ",
      "then use Sample_Column_Values tool to see actual data values before writing queries.">>

\* the entry of schema_info["tables"] for a table name (None: <<>>)
TableEntry(tables, name) ==
    IF \E i \in 1..Len(tables) : tables[i].table = name
    THEN Some(tables[CHOOSE i \in 1..Len(tables) : tables[i].table = name])
    ELSE None

\* agent.py sql_query_tool: the branch of a failed query.  r is the outcome
\* of execute_query; the lookups that follow use the connection it left.
agent_sql_error(r, cfg, reachable, query) ==
    LET explain(lowered, head) ==
        IF Contains(lowered, NoSuchTable)
        THEN LET named(n) ==
                 [text |-> head
                      \o (IF n.ret.list # <<>>
                          THEN <<"Available tables: ">> \o Join(n.ret.list, <<", ">>) \o <<"\n">>
                                 \o <<"Use the Database_Schema tool to see table structures before querying.\n">>
                          ELSE <<"Could not retrieve available tables.\n">>)
                      \o RECOMMENDATION_agent,
                  connection |-> n.connection, row_factory |-> n.row_factory,
                  log |-> r.log \o n.log]
             IN  named(get_table_names(r.connection, r.row_factory, cfg, reachable))
        ELSE IF Contains(lowered, NoSuchColumn)
        THEN LET described(m, i, e) ==
                 [text |-> head
                      \o (IF m = None THEN <<>>
                          ELSE IF e # None
                          THEN <<"Available columns in table '">> \o m[1] \o <<"': ">>
                                 \o Join([k \in 1..Len(e[1].columns) |-> e[1].columns[k].name], <<", ">>)
                                 \o <<"\n">>
                          ELSE <<"Could not get column information for table '">> \o m[1] \o <<"'.\n">>)
                      \o <<"Use the Database_Schema tool to see exact column names and types.\n">>
                      \o RECOMMENDATION_agent,
                  connection |-> i.connection, row_factory |-> i.row_factory,
                  log |-> r.log \o i.log]
                 looked_up(m, i) ==
                     described(m, i, IF m # None /\ "tables" \in DOMAIN i.ret
                                     THEN TableEntry(i.ret.tables, m[1]) ELSE None)
                 matched(m) ==
                     looked_up(m, IF m = None
                                  THEN Outcome(NoResult, <<>>, r.connection, r.row_factory, <<>>)
                                  ELSE get_table_info(r.connection, r.row_factory, cfg, reachable))
             IN  matched(table_match(query))
        ELSE [text |-> head \o RECOMMENDATION_agent,
              connection |-> r.connection, row_factory |-> r.row_factory, log |-> r.log]
    IN  explain(Lower(r.ret.error), <<"Query failed: ">> \o r.ret.error \o <<"\n\n">>)

\* agent.py sql_query_tool(query); t is the time store_query_data reads
agent_sql_query_tool(cache, cs, conn, rf, cfg, reachable, query, t) ==
    LET observe(r, result, failed) ==
        IF r.raised # <<>>
        THEN \* except Exception as e
             AgentOut(ToolOut(Str(<<"Unexpected error executing query: ">> \o r.raised \o <<"\n\n">>
                                    \o <<"RECOMMENDATION: Use Database_Schema tool to check table structures ",
                                         "and Sample_Column_Values tool to see actual data before writing queries.">>),
                              <<>>, r.connection, r.row_factory, r.log, cache, {}, NoResult),
                      failed)
        ELSE IF "error" \in DOMAIN result
        THEN LET explained(e) ==
                     AgentOut(ToolOut(Str(e.text), <<>>, e.connection, e.row_factory, e.log,
                                      cache, {}, result),
                              failed)
             IN  explained(agent_sql_error(r, cfg, reachable, query))
        ELSE IF result.row_count > 0
        THEN AgentOut(ToolOut(Str(PreviewHead(result) \o PreviewTable(result)
                                    \o <<"\nThis is the actual data from the database. Use this to answer the user's question with specific details.",
                                         "\nNOTE: This data has been stored and is available for plotting if visualization would be helpful.">>),
                              <<>>, r.connection, r.row_factory, r.log,
                              plotter_store_query_data(result.data, query, t), {}, result),
                      [cs EXCEPT !.last_query_successful = TRUE,
                                 !.current_data_context =
                                     Some([query |-> query, row_count |-> result.row_count,
                                           columns |-> result.columns])])
        ELSE AgentOut(ToolOut(Str(<<"Query executed successfully but returned no results. The query syntax was correct but no data matches your criteria.">>),
                              <<>>, r.connection, r.row_factory, r.log, cache, {}, result),
                      failed)
        executed(r) == observe(r, r.ret, [cs EXCEPT !.last_query_successful = FALSE])
    IN  executed(execute_query(conn, rf, cfg, reachable, query))

\* the agent's schema listing shows this many columns of a table
max_columns == 8

RECURSIVE agent_SchemaColumns(_, _, _)
agent_SchemaColumns(columns, shown, total) ==
    IF columns = <<>> THEN <<>>
    ELSE IF shown >= max_columns
    THEN <<"  ... and ", ToString(total - shown), " more columns\n">>
    ELSE <<"  - ">> \o columns[1].name \o <<" (">> \o columns[1].type \o <<")\n">>
           \o agent_SchemaColumns(Tail(columns), shown + 1, total)

RECURSIVE agent_SchemaTables(_, _, _)
agent_SchemaTables(tables, displayed, table_count) ==
    IF tables = <<>> THEN <<>>
    ELSE IF displayed >= max_tables
    THEN <<"... and ", ToString(table_count - displayed),
           " more tables (use Sample_Column_Values for specific table details)\n">>
    ELSE <<"Table: ">> \o tables[1].table \o <<"\n", "Key columns:\n">>
           \o agent_SchemaColumns(tables[1].columns, 0, Len(tables[1].columns))
           \o <<"Sample query: ">> \o tables[1].sample_query \o <<"\n\n">>
           \o agent_SchemaTables(Tail(tables), displayed + 1, table_count)

\* agent.py database_schema_tool(input_str)
agent_database_schema_tool(cache, conn, rf, cfg, reachable) ==
    LET observe(r, result) ==
        IF r.raised # <<>>
        THEN ToolOut(Str(<<"Error retrieving schema: ">> \o r.raised), <<>>,
                     r.connection, r.row_factory, r.log, cache, {}, NoResult)
        ELSE IF "error" \in DOMAIN result
        THEN ToolOut(Str(<<"Error: ">> \o result.error), <<>>,
                     r.connection, r.row_factory, r.log, cache, {}, NoResult)
        ELSE ToolOut(Str(<<"Available tables and their schemas:\n\n">>
                           \o agent_SchemaTables(result.tables, 0, Len(result.tables))),
                     <<>>, r.connection, r.row_factory, r.log, cache, {}, NoResult)
        listed(r) == observe(r, r.ret)
    IN  listed(get_table_info(conn, rf, cfg, reachable))

\* json.dumps of one value: a str is quoted, None is null, a number is
\* written as it is; bytes are not serializable
JsonValue(v) ==
    IF v.ty = "str" THEN <<"\"">> \o v.v \o <<"\"">>
    ELSE IF v.ty = "NoneType" THEN <<"null">>
    ELSE v.v

RECURSIVE JsonEntries(_)
JsonEntries(all) ==
    IF all = <<>> THEN <<>>
    ELSE <<"\"">> \o all[1].k \o <<"\": [">>
           \o Join([i \in 1..Len(all[1].v) |-> JsonValue(all[1].v[i])], <<", ">>)
           \o <<"]">> \o (IF Len(all) > 1 THEN <<", ">> ELSE <<>>)
           \o JsonEntries(Tail(all))

Serializable(all) ==
    \A i \in 1..Len(all) : \A j \in 1..Len(all[i].v) : all[i].v[j].ty # "bytes"

\* json.dumps(all_sample_values): the text, or the TypeError it raises
json_dumps(all) ==
    IF Serializable(all)
    THEN [text |-> <<"{">> \o JsonEntries(all) \o <<"}">>, raised |-> <<>>]
    ELSE [text |-> <<>>, raised |-> E_not_serializable]

\* [d['name'] for d in result_tables.get('data', [])]
NamesOf(data) == [i \in 1..Len(data) |-> Get(data[i], K_name)[1].v]

\* agent.py sample_column_values_tool(query): the table names come from
\* execute_query too; json.dumps is outside every try
agent_sample_column_values_tool(cache, conn, rf, cfg, reachable) ==
    LET named(r) ==
        IF r.raised # <<>>
        THEN ToolOut(Str(<<>>), r.raised, r.connection, r.row_factory, r.log, cache, {}, NoResult)
        ELSE IF "error" \in DOMAIN r.ret /\ r.ret.error # <<>>
        THEN ToolOut(Str(<<"Error fetching table names: ">> \o r.ret.error), <<>>,
                     r.connection, r.row_factory, r.log, cache, {}, NoResult)
        ELSE LET dumped(st, j) ==
                     ToolOut(Str(j.text), j.raised, st.connection, st.row_factory, st.log,
                             cache, {}, Sampled(st.values))
                 sampled(st) == dumped(st, json_dumps(st.values))
             IN  sampled(SampleTables(NamesOf(r.ret.data),
                                      LoopState(r.connection, r.row_factory, r.log, <<>>),
                                      cfg, reachable))
    IN  named(execute_query(conn, rf, cfg, reachable, Q_master))

\* RNAseqPlotter.allowed_plots, the list "allowed_plots" of config/prompts.yaml,
\* [] when the file has no such key
allowed_plots(acfg) ==
    IF acfg = "configured"
    THEN <<PT_scatter, PT_pca, PT_volcano, PT_heatmap, PT_bar, PT_enrichment, PT_dot>>
    ELSE <<>>

M_agent_no_data ==
    <<"Error: No data available for plotting. Please run a SQL query first to retrieve data.">>

\* self.allowed_plots printed in an f-string: the repr of the list
ListRepr(list) ==
    <<"[">> \o Join([i \in 1..Len(list) |-> <<"'">> \o list[i] \o <<"'">>], <<", ">>) \o <<"]">>

M_plotter_not_allowed(plot_type, allowed) ==
    <<"Plot type '">> \o plot_type \o <<"' is not allowed. Allowed types: ">>
      \o ListRepr(allowed)

\* RNAseqPlotter.create_plot(plot_type, additional_info), called at time t.
\* gen_ok: the template of the chart type is configured, the model answers,
\* and the filled template runs without raising.
plotter_create_plot(cache, allowed, t, plot_type, gen_ok) ==
    IF cache = None \/ cache[1].data = <<>>
    THEN [error |-> <<"No data available for plotting">>]
    ELSE IF plot_type \notin Range(allowed)
    THEN [error |-> M_plotter_not_allowed(plot_type, allowed)]
    ELSE IF ~gen_ok
    THEN [error |-> <<"Plot generation failed: ">> \o <<"'template'">>]
    ELSE [summary |-> plot_type \o <<" plot created successfully">>,
          plot_filename |-> <<"plots", "/">> \o plot_type \o <<"_">> \o Stamp(t) \o <<".html">>,
          generated_code |-> <<"fig.write_html(plot_filename)">>]

\* agent.py plot_tool(plot_request), called at time t
agent_plot_tool(cache, cs, allowed, t, plot_request, gen_ok) ==
    IF cache = None
    THEN [ret |-> Str(M_agent_no_data), raised |-> <<>>, wrote |-> {}, context_state |-> cs]
    ELSE LET observe(plot_type, result) ==
             IF "error" \in DOMAIN result
             THEN [ret |-> Str(<<"Plot creation failed: ">> \o result.error),
                   raised |-> <<>>, wrote |-> {}, context_state |-> cs]
             ELSE [ret |-> [success |-> TRUE, summary |-> result.summary,
                            plot_filename |-> result.plot_filename,
                            generated_code |-> result.generated_code],
                   raised |-> <<>>,
                   wrote |-> {File(".", result.plot_filename, result.generated_code)},
                   context_state |-> [cs EXCEPT !.last_plot_created = Some(plot_type)]]
             create(plot_type) ==
                 observe(plot_type, plotter_create_plot(cache, allowed, t, plot_type, gen_ok))
             parse(parts) == create(Strip(parts[1]))
         IN  parse(Split(plot_request, "|"))

----------------------------------------------------------------------------
(* app.py: what the page does with the handles                              *)

\* the path of a file, from the working directory of the process
PathOf(dir, name) == (IF dir = "." THEN <<>> ELSE <<dir, "/">>) \o name

\* os.path.join(<project directory>, "assets", "plots", plot_filename): the
\* process runs in the project directory
app_plot_path(plot_filename) == PathOf("assets/plots", plot_filename)

----------------------------------------------------------------------------
(* utils.py: invoke_with_retry, and agent.py: RNAseqAgent.ask               *)

\* def invoke_with_retry(agent, input_dict, max_retries: int = 5)
max_retries == 5
\* min(..., 30)
max_delay == 30

S_429 ==   \* 429
    <<"4","2","9">>
S_rate_limit ==   \* rate limit
    <<"r","a","t","e"," ","l","i","m","i","t">>
S_capacity ==   \* capacity
    <<"c","a","p","a","c","i","t","y">>

\* "429" in error_str or "rate limit" in error_str or "capacity" in error_str,
\* error_str being str(e).lower()
is_rate_limit(e) ==
    LET any(error_str) ==
        \/ Contains(error_str, S_429)
        \/ Contains(error_str, S_rate_limit)
        \/ Contains(error_str, S_capacity)
    IN  any(Lower(e))

\* Mutation of backoff_delay: the jitter alone, whatever the attempt.
backoff_delay_flat(attempt, jitter) ==
    LET least(d) == IF d < max_delay THEN d ELSE max_delay
    IN  least(2 - jitter)

\* min(2 ** attempt + random.uniform(0, 1), 30); jitter is the number drawn
backoff_delay(attempt, jitter) ==
    LET least(d) == IF d < max_delay THEN d ELSE max_delay
    IN  least(2 ^ attempt + jitter)

\* Mutation of capacity_record: the text alone, without the list of steps.
capacity_text_only ==
    [output |-> <<"Gemini is currently at capacity. Please try again in a few minutes or contact us.">>]

\* the record returned when all retries are exhausted
capacity_record ==
    [output |-> <<"Gemini is currently at capacity. Please try again in a few minutes or contact us.">>,
     intermediate_steps |-> <<>>]

\* how an invocation that raised e ended: with a rate-limit error or another
ended_with(e) == IF is_rate_limit(e) THEN "rate" ELSE "other"

\* Mutation of retry_except: every error is retried like a rate-limit error.
retry_except_any(e, attempt, jitter) ==
    IF attempt < max_retries - 1
    THEN [what |-> "sleep", delay |-> backoff_delay(attempt, jitter)]
    ELSE IF is_rate_limit(e) THEN [what |-> "return", delay |-> 0]
    ELSE [what |-> "raise", delay |-> 0]

\* Mutation of retry_except: a rate-limit error is slept on after the last
\* attempt as after any other.
retry_except_sleeps(e, attempt, jitter) ==
    IF is_rate_limit(e)
    THEN [what |-> "sleep", delay |-> backoff_delay(attempt, jitter)]
    ELSE [what |-> "raise", delay |-> 0]

\* the except clause of invoke_with_retry, for the exception e of attempt
\* `attempt`: sleep and go on, return the capacity record, or raise e again
retry_except(e, attempt, jitter) ==
    IF is_rate_limit(e)
    THEN IF attempt < max_retries - 1
         THEN [what |-> "sleep", delay |-> backoff_delay(attempt, jitter)]
         ELSE [what |-> "return", delay |-> 0]
    ELSE [what |-> "raise", delay |-> 0]

\* a (tool call, observation) pair of intermediate_steps
Step(tool, tool_input, observation) ==
    [tool |-> tool, tool_input |-> tool_input, observation |-> observation]

\* isinstance(observation, dict) and "plot_filename" in observation
HasPlot(observation) == "plot_filename" \in DOMAIN observation

\* Mutation of extract_plot_filename: the loop stops at the first step that
\* has a plot filename.
RECURSIVE extract_first_plot(_, _)
extract_first_plot(steps, plot_filename) ==
    IF steps = <<>> THEN plot_filename
    ELSE IF HasPlot(steps[1].observation)
         THEN Some(steps[1].observation.plot_filename)
         ELSE extract_first_plot(Tail(steps), plot_filename)

\* plot_filename after the loop over intermediate_steps, from the value it
\* has before the loop
RECURSIVE extract_plot_filename(_, _)
extract_plot_filename(steps, plot_filename) ==
    IF steps = <<>> THEN plot_filename
    ELSE extract_plot_filename(Tail(steps),
                               IF HasPlot(steps[1].observation)
                               THEN Some(steps[1].observation.plot_filename)
                               ELSE plot_filename)

\* what the response model returns: an AIMessage with its content
AIMessage(content) == [content |-> content]

\* Mutation of final_answer_of: the object returned by the response model is
\* handed on as the answer.
final_answer_raw(gemini_response) == gemini_response

\* final_answer from gemini_response: the "output" of a dict, the content of
\* an AIMessage
final_answer_of(gemini_response) ==
    IF "output" \in DOMAIN gemini_response THEN Str(gemini_response.output)
    ELSE IF "content" \in DOMAIN gemini_response THEN Str(gemini_response.content)
    ELSE Str(<<"None">>)

\* result.get(...) on the None of a function that ended without a return
E_no_get ==
    <<"'NoneType' object has no attribute 'get'">>

M_response_failed ==
    <<"I encountered an error while generating the response. Please try again or rephrase your question.">>

\* the fallback of the outer except clause of ask
fallback(e) ==
    <<"I encountered an error while processing your question: ">> \o e
      \o <<". Please try rephrasing your question or ask about a specific aspect of the RNAseq analysis.">>

\* return final_answer, plot_filename
AskResult(final_answer, plot_filename) ==
    [final_answer |-> final_answer, plot_filename |-> plot_filename]

\* The turn ask() serves.  pc: "idle" (no turn), "retry" (at the head of the
\* loop of invoke_with_retry), "running" (inside agent.invoke), "over"
\* (invoke_with_retry has returned or raised), "done" (ask has returned).
\* target: whose invoke_with_retry it is, "agent" or "response".  asked: the
\* requests passed to invoke, one per invocation; slept and delay: the number
\* of sleeps and the last delay; last: how the last invocation ended; got and
\* raised: what invoke_with_retry returned or raised.  steps: the
\* intermediate steps of the running invocation; result: what
\* invoke_with_retry(self.agent, ...) returned; made: the filenames the
\* Create_Plot calls of the turn returned; failure: the loop-level failure
\* of the turn; ret: what ask returned.
IdleTurn ==
    [pc |-> "idle", question |-> <<>>, target |-> "none", request |-> <<>>,
     attempt |-> 0, asked |-> <<>>, slept |-> 0, delay |-> 0, last |-> "none",
     got |-> None, raised |-> None, steps |-> <<>>, result |-> None,
     plot_filename |-> None, made |-> {}, failure |-> "none", ret |-> None]

\* invoke_with_retry(target, request) is entered
EnterRetry(t, target, request) ==
    [t EXCEPT !.pc = "retry", !.target = target, !.request = request, !.attempt = 0,
              !.asked = <<>>, !.slept = 0, !.delay = 0, !.last = "none",
              !.got = None, !.raised = None, !.steps = <<>>]

----------------------------------------------------------------------------
(* The inputs of the model and its bounds                                   *)

\* The clock is read at these instants: the first seconds of the run, and
\* the edge of the freshness window with the seconds that follow it.
Span == 1
Clock == (0..Span) \cup (StaleAfter..(StaleAfter + Span))
\* the seconds a query takes
Elapsed == {0, 1}

\* whether sqlite3.connect() would succeed: asked only where there is no
\* connection, the one place the program connects
Reachable(conn) == IF conn = "None" THEN BOOLEAN ELSE {TRUE}

\* the requests the reasoning loop sends to Create_Plot
P_scatter ==   \* scatter|x_column=x|y_column=y
    <<"s","c","a","t","t","e","r","|","x","_","c","o","l","u","m","n","=","x","|","y","_","c","o","l","u","m","n","=","y">>
P_volcano ==   \*  Volcano |x_column = x|y_column=y|threshold=0.2
    <<" ","V","o","l","c","a","n","o"," ","|","x","_","c","o","l","u","m","n"," ","="," ","x","|","y","_","c","o","l","u","m","n","=","y","|","t","h","r","e","s","h","o","l","d","=","0",".","2">>
P_nox ==   \* bar|y_column=y
    <<"b","a","r","|","y","_","c","o","l","u","m","n","=","y">>
P_noy ==   \* volcano|x_column=x
    <<"v","o","l","c","a","n","o","|","x","_","c","o","l","u","m","n","=","x">>
P_badcol ==   \* scatter|x_column=q|y_column=y
    <<"s","c","a","t","t","e","r","|","x","_","c","o","l","u","m","n","=","q","|","y","_","c","o","l","u","m","n","=","y">>
P_pie ==   \* pie|x_column=q
    <<"p","i","e","|","x","_","c","o","l","u","m","n","=","q">>
P_heatmap ==   \* heatmap
    <<"h","e","a","t","m","a","p">>

PlotRequests == {P_scatter, P_volcano, P_nox, P_noy, P_badcol, P_pie, P_heatmap}

\* the questions of the user, the outputs of the reasoning loop and of the
\* response model, and the exceptions an invocation raises
Questions == {<<"What genes are upregulated?">>}
AgentRequest(question) == <<"system_context", "\n\nUser question: ">> \o question
ResponseRequest(question) == <<"gemini_prompt: ">> \o question
TechnicalOutput == <<"Final Answer">>
ResponseContent == <<"The data show two genes.">>
E_quota ==   \* 429 Resource has been exhausted
    <<"4","2","9"," ","R","e","s","o","u","r","c","e"," ","h","a","s"," ","b","e","e","n"," ","e","x","h","a","u","s","t","e","d">>
E_capacity ==   \* The model is at Capacity
    <<"T","h","e"," ","m","o","d","e","l"," ","i","s"," ","a","t"," ","C","a","p","a","c","i","t","y">>
E_deadline ==   \* Deadline Exceeded
    <<"D","e","a","d","l","i","n","e"," ","E","x","c","e","e","d","e","d">>
InvocationErrors == {E_quota, E_capacity, E_deadline}
\* random.uniform(0, 1): the ends of the interval
Jitter == {0, 1}

\* the tool calls the reasoning loop makes in one invocation: at most
\* MaxSteps of them (the executor stops at max_iterations = 15), with these
\* inputs
MaxSteps == 2
TurnQueries == {Q_t, Q_nope}
TurnPlots == {P_heatmap, P_scatter, P_pie}

----------------------------------------------------------------------------
(* The state machine                                                        *)

\* the record of a call: the operation, its input, the time it started, the
\* value it returned, the exception that escaped it, the files it wrote, the
\* sqlite3 calls it made and the result it got from execute_query
Call(op, input, start, ret, raised, wrote, log, dbres) ==
    [op |-> op, input |-> input, start |-> start, ret |-> ret, raised |-> raised,
     wrote |-> wrote, log |-> log, dbres |-> dbres]

\* no call is under way: the caller has taken the result of the last one
NoCall == Call("none", <<>>, 0, NoResult, <<>>, {}, <<>>, NoResult)
Idle == lastCall = NoCall

\* The process after its construction.  RNAseqDatabase.__init__ connects
\* once, and the connection stays None if that fails; RNAseqAgent.__init__
\* raises unless the connection could be made.
Init ==
    /\ impl \in {"tools", "agent"}
    /\ storeCfg \in StoreConfigs
    /\ allowCfg \in AllowConfigs
    /\ connection \in (IF impl = "agent" THEN {"open"} ELSE {"open", "None"})
    /\ row_factory = "None"
    /\ LAST_QUERY_DATA = EmptyCache
    /\ last_query_data = None
    /\ context_state = InitContext
    /\ now = 0
    /\ lastCall = NoCall
    /\ turn = IdleTurn
    /\ assets = {}
    /\ conv = <<>>
    /\ memory = <<>>
    /\ origin = <<>>

\* time passes between two calls
Tick ==
    /\ Idle
    /\ \E t \in Clock : now < t /\ now' = t
    /\ UNCHANGED <<serving, turn, impl, storeCfg, allowCfg, connection, row_factory, LAST_QUERY_DATA,
                   last_query_data, context_state, lastCall>>

\* RNAseqDatabase.connect()
DbConnect ==
    /\ Idle
    /\ \E reachable \in BOOLEAN :
         \E r \in {connect(connection, row_factory, reachable)} :
            /\ connection' = r.connection
            /\ row_factory' = r.row_factory
            /\ lastCall' = Call("connect", <<>>, now, r.ret, r.raised, {}, r.log, NoResult)
    /\ UNCHANGED <<serving, turn, impl, storeCfg, allowCfg, LAST_QUERY_DATA, last_query_data,
                   context_state, now>>

\* RNAseqDatabase.close()
DbClose ==
    /\ Idle
    /\ \E r \in {close(connection, row_factory)} :
            /\ connection' = r.connection
            /\ row_factory' = r.row_factory
            /\ lastCall' = Call("close", <<>>, now, r.ret, r.raised, {}, r.log, NoResult)
    /\ UNCHANGED <<serving, turn, impl, storeCfg, allowCfg, LAST_QUERY_DATA, last_query_data,
                   context_state, now>>

\* RNAseqDatabase.execute_query(query), called directly
DbExecuteQuery ==
    /\ Idle
    /\ \E query \in Queries, reachable \in Reachable(connection) :
         \E r \in {execute_query(connection, row_factory, storeCfg, reachable, query)} :
            /\ connection' = r.connection
            /\ row_factory' = r.row_factory
            /\ lastCall' = Call("execute_query", query, now, r.ret, r.raised, {}, r.log, r.ret)
    /\ UNCHANGED <<serving, turn, impl, storeCfg, allowCfg, LAST_QUERY_DATA, last_query_data,
                   context_state, now>>

\* RNAseqDatabase.get_table_names(), called directly
DbGetTableNames ==
    /\ Idle
    /\ \E reachable \in Reachable(connection) :
         \E r \in {get_table_names(connection, row_factory, storeCfg, reachable)} :
            /\ connection' = r.connection
            /\ row_factory' = r.row_factory
            /\ lastCall' = Call("get_table_names", <<>>, now, r.ret, r.raised, {}, r.log, NoResult)
    /\ UNCHANGED <<serving, turn, impl, storeCfg, allowCfg, LAST_QUERY_DATA, last_query_data,
                   context_state, now>>

\* RNAseqDatabase.get_table_info(), called directly
DbGetTableInfo ==
    /\ Idle
    /\ \E reachable \in Reachable(connection) :
         \E r \in {get_table_info(connection, row_factory, storeCfg, reachable)} :
            /\ connection' = r.connection
            /\ row_factory' = r.row_factory
            /\ lastCall' = Call("get_table_info", <<>>, now, r.ret, r.raised, {}, r.log, NoResult)
    /\ UNCHANGED <<serving, turn, impl, storeCfg, allowCfg, LAST_QUERY_DATA, last_query_data,
                   context_state, now>>

\* the SQL_Query tool of tools.py
ToolsSqlQuery ==
    /\ impl = "tools"
    /\ Idle
    /\ \E query \in Queries, reachable \in Reachable(connection), d \in Elapsed :
         /\ now + d \in Clock
         /\ \E r \in {tools_sql_query_tool(LAST_QUERY_DATA, connection, row_factory, storeCfg,
                                           reachable, query, now + d)} :
              /\ now' = now + d
              /\ connection' = r.connection
              /\ row_factory' = r.row_factory
              /\ LAST_QUERY_DATA' = r.cache
              /\ lastCall' = Call("SQL_Query", query, now, r.ret, r.raised, r.wrote, r.log, r.dbres)
    /\ UNCHANGED <<serving, turn, impl, storeCfg, allowCfg, last_query_data, context_state>>

\* the SQL_Query tool of agent.py
AgentSqlQuery ==
    /\ impl = "agent"
    /\ Idle
    /\ \E query \in Queries, reachable \in Reachable(connection), d \in Elapsed :
         /\ now + d \in Clock
         /\ \E a \in {agent_sql_query_tool(last_query_data, context_state, connection,
                                           row_factory, storeCfg, reachable, query, now + d)} :
              /\ now' = now + d
              /\ connection' = a.out.connection
              /\ row_factory' = a.out.row_factory
              /\ last_query_data' = a.out.cache
              /\ context_state' = a.context_state
              /\ lastCall' = Call("SQL_Query", query, now, a.out.ret, a.out.raised,
                                  a.out.wrote, a.out.log, a.out.dbres)
    /\ UNCHANGED <<serving, turn, impl, storeCfg, allowCfg, LAST_QUERY_DATA>>

\* the Database_Schema tool of tools.py
ToolsDatabaseSchema ==
    /\ impl = "tools"
    /\ Idle
    /\ \E reachable \in Reachable(connection) :
         \E r \in {tools_database_schema_tool(LAST_QUERY_DATA, connection, row_factory,
                                              storeCfg, reachable)} :
            /\ connection' = r.connection
            /\ row_factory' = r.row_factory
            /\ LAST_QUERY_DATA' = r.cache
            /\ lastCall' = Call("Database_Schema", <<>>, now, r.ret, r.raised, r.wrote,
                                r.log, r.dbres)
    /\ UNCHANGED <<serving, turn, impl, storeCfg, allowCfg, last_query_data, context_state, now>>

\* the Database_Schema tool of agent.py
AgentDatabaseSchema ==
    /\ impl = "agent"
    /\ Idle
    /\ \E reachable \in Reachable(connection) :
         \E r \in {agent_database_schema_tool(last_query_data, connection, row_factory,
                                              storeCfg, reachable)} :
            /\ connection' = r.connection
            /\ row_factory' = r.row_factory
            /\ last_query_data' = r.cache
            /\ lastCall' = Call("Database_Schema", <<>>, now, r.ret, r.raised, r.wrote,
                                r.log, r.dbres)
    /\ UNCHANGED <<serving, turn, impl, storeCfg, allowCfg, LAST_QUERY_DATA, context_state, now>>

\* the Sample_Column_Values tool of tools.py
ToolsSampleColumnValues ==
    /\ impl = "tools"
    /\ Idle
    /\ \E reachable \in Reachable(connection) :
         \E r \in {tools_sample_column_values_tool(LAST_QUERY_DATA, connection, row_factory,
                                                   storeCfg, reachable)} :
            /\ connection' = r.connection
            /\ row_factory' = r.row_factory
            /\ LAST_QUERY_DATA' = r.cache
            /\ lastCall' = Call("Sample_Column_Values", <<>>, now, r.ret, r.raised, r.wrote,
                                r.log, r.dbres)
    /\ UNCHANGED <<serving, turn, impl, storeCfg, allowCfg, last_query_data, context_state, now>>

\* the Sample_Column_Values tool of agent.py
AgentSampleColumnValues ==
    /\ impl = "agent"
    /\ Idle
    /\ \E reachable \in Reachable(connection) :
         \E r \in {agent_sample_column_values_tool(last_query_data, connection, row_factory,
                                                   storeCfg, reachable)} :
            /\ connection' = r.connection
            /\ row_factory' = r.row_factory
            /\ last_query_data' = r.cache
            /\ lastCall' = Call("Sample_Column_Values", <<>>, now, r.ret, r.raised, r.wrote,
                                r.log, r.dbres)
    /\ UNCHANGED <<serving, turn, impl, storeCfg, allowCfg, LAST_QUERY_DATA, context_state, now>>

\* the Create_Plot tool of tools.py
ToolsCreatePlot ==
    /\ impl = "tools"
    /\ Idle
    /\ \E plot_request \in PlotRequests, px_ok \in BOOLEAN, io_ok \in BOOLEAN :
         \E r \in {create_plot_tool(LAST_QUERY_DATA, ALLOWED_PLOTS(allowCfg), now,
                                    plot_request, px_ok, io_ok)} :
            lastCall' = Call("Create_Plot", plot_request, now, r.ret, r.raised, r.wrote,
                             <<>>, NoResult)
    /\ UNCHANGED <<serving, turn, impl, storeCfg, allowCfg, connection, row_factory, LAST_QUERY_DATA,
                   last_query_data, context_state, now>>

\* the Create_Plot tool of agent.py
AgentCreatePlot ==
    /\ impl = "agent"
    /\ Idle
    /\ \E plot_request \in PlotRequests, gen_ok \in BOOLEAN :
         \E r \in {agent_plot_tool(last_query_data, context_state, allowed_plots(allowCfg),
                                   now, plot_request, gen_ok)} :
            /\ context_state' = r.context_state
            /\ lastCall' = Call("Create_Plot", plot_request, now, r.ret, r.raised, r.wrote,
                                <<>>, NoResult)
    /\ UNCHANGED <<serving, turn, impl, storeCfg, allowCfg, connection, row_factory, LAST_QUERY_DATA,
                   last_query_data, now>>

\* the Create_Report tool of tools.py (the agent has none)
ToolsCreateReport ==
    /\ impl = "tools"
    /\ Idle
    /\ \E io_ok \in BOOLEAN :
         \E r \in {create_csv_report_tool(LAST_QUERY_DATA, now, io_ok)} :
            lastCall' = Call("Create_Report", <<>>, now, r.ret, r.raised, r.wrote,
                             <<>>, NoResult)
    /\ UNCHANGED <<serving, turn, impl, storeCfg, allowCfg, connection, row_factory, LAST_QUERY_DATA,
                   last_query_data, context_state, now>>

\* the caller takes the result of the call and goes on
Return ==
    /\ ~Idle
    /\ lastCall' = NoCall
    /\ UNCHANGED <<serving, turn, impl, storeCfg, allowCfg, connection, row_factory, LAST_QUERY_DATA,
                   last_query_data, context_state, now>>

Next ==
    \/ Tick
    \/ DbConnect
    \/ DbClose
    \/ DbExecuteQuery
    \/ DbGetTableNames
    \/ DbGetTableInfo
    \/ ToolsSqlQuery
    \/ AgentSqlQuery
    \/ ToolsDatabaseSchema
    \/ AgentDatabaseSchema
    \/ ToolsSampleColumnValues
    \/ AgentSampleColumnValues
    \/ ToolsCreatePlot
    \/ AgentCreatePlot
    \/ ToolsCreateReport
    \/ Return

Spec == Init /\ [][Next]_vars

----------------------------------------------------------------------------
(* A turn: RNAseqAgent.ask(question)                                        *)

\* The agent after its construction (RNAseqAgent.__init__ has connected), on
\* a file with the tables of "plain".  The clock stands still during the
\* turn: the delays slept are kept in turn.
AskInit ==
    /\ impl = "agent"
    /\ storeCfg = "plain"
    /\ allowCfg = "configured"
    /\ connection = "open"
    /\ row_factory = "None"
    /\ LAST_QUERY_DATA = EmptyCache
    /\ last_query_data = None
    /\ context_state = InitContext
    /\ now = 0
    /\ lastCall = NoCall
    /\ turn = IdleTurn
    /\ assets = {}
    /\ conv = <<>>
    /\ memory = <<>>
    /\ origin = <<>>

\* ask(question) up to the first invoke_with_retry(self.agent, ...)
AskBegin ==
    /\ turn.pc = "idle"
    /\ \E question \in Questions :
         turn' = EnterRetry([IdleTurn EXCEPT !.question = question],
                            "agent", AgentRequest(question))
    /\ UNCHANGED <<serving, impl, storeCfg, allowCfg, connection, row_factory, LAST_QUERY_DATA,
                   last_query_data, context_state, now, lastCall>>

\* for attempt in range(max_retries): agent.invoke(input_dict) is called;
\* when the range is used up the function ends without a return statement
RetryInvoke ==
    /\ turn.pc = "retry"
    /\ turn' = IF turn.attempt < max_retries
               THEN [turn EXCEPT !.pc = "running", !.asked = Append(@, turn.request),
                                 !.steps = <<>>]
               ELSE [turn EXCEPT !.pc = "over", !.got = Some(NoResult)]
    /\ UNCHANGED <<serving, impl, storeCfg, allowCfg, connection, row_factory, LAST_QUERY_DATA,
                   last_query_data, context_state, now, lastCall>>

\* inside agent.invoke the reasoning loop calls SQL_Query
TurnSqlQuery ==
    /\ turn.pc = "running"
    /\ turn.target = "agent"
    /\ Len(turn.steps) < MaxSteps
    /\ \E query \in TurnQueries :
         \E a \in {agent_sql_query_tool(last_query_data, context_state, connection,
                                           row_factory, storeCfg, TRUE, query, now)} :
            /\ connection' = a.out.connection
            /\ row_factory' = a.out.row_factory
            /\ last_query_data' = a.out.cache
            /\ context_state' = a.context_state
            /\ turn' = [turn EXCEPT !.steps = Append(@, Step("SQL_Query", query, a.out.ret))]
    /\ UNCHANGED <<serving, impl, storeCfg, allowCfg, LAST_QUERY_DATA, now, lastCall>>

\* inside agent.invoke the reasoning loop calls Create_Plot
TurnCreatePlot ==
    /\ turn.pc = "running"
    /\ turn.target = "agent"
    /\ Len(turn.steps) < MaxSteps
    /\ \E plot_request \in TurnPlots, gen_ok \in BOOLEAN :
         \E r \in {agent_plot_tool(last_query_data, context_state, allowed_plots(allowCfg),
                                   now, plot_request, gen_ok)} :
            /\ context_state' = r.context_state
            /\ turn' = [turn EXCEPT
                           !.steps = Append(@, Step("Create_Plot", plot_request, r.ret)),
                           !.made = IF HasPlot(r.ret) THEN @ \cup {r.ret.plot_filename} ELSE @]
    /\ UNCHANGED <<serving, impl, storeCfg, allowCfg, connection, row_factory, LAST_QUERY_DATA,
                   last_query_data, now, lastCall>>

\* invoke returns and invoke_with_retry returns its result: the executor
\* returns its output with the intermediate steps, the response model an
\* AIMessage
InvokeReturns ==
    /\ turn.pc = "running"
    /\ turn' = [turn EXCEPT
                   !.pc = "over", !.last = "ok",
                   !.got = Some(IF turn.target = "agent"
                                THEN [output |-> TechnicalOutput,
                                      intermediate_steps |-> turn.steps]
                                ELSE AIMessage(ResponseContent))]
    /\ UNCHANGED <<serving, impl, storeCfg, allowCfg, connection, row_factory, LAST_QUERY_DATA,
                   last_query_data, context_state, now, lastCall>>

\* invoke raises and the except clause of invoke_with_retry runs
InvokeRaises ==
    /\ turn.pc = "running"
    /\ \E e \in InvocationErrors, jitter \in Jitter :
         \E x \in {retry_except(e, turn.attempt, jitter)} :
            turn' = IF x.what = "sleep"
                    THEN [turn EXCEPT !.pc = "retry", !.attempt = @ + 1, !.slept = @ + 1,
                                      !.delay = x.delay, !.last = ended_with(e)]
                    ELSE IF x.what = "return"
                    THEN [turn EXCEPT !.pc = "over", !.last = ended_with(e),
                                      !.got = Some(capacity_record)]
                    ELSE [turn EXCEPT !.pc = "over", !.last = ended_with(e),
                                      !.raised = Some(e)]
    /\ UNCHANGED <<serving, impl, storeCfg, allowCfg, connection, row_factory, LAST_QUERY_DATA,
                   last_query_data, context_state, now, lastCall>>

\* ask after invoke_with_retry(self.agent, ...): the plot filename is taken
\* from the intermediate steps and invoke_with_retry(self.response_llm, ...)
\* is entered; an exception goes to the outer except clause
AskExtract ==
    /\ turn.pc = "over"
    /\ turn.target = "agent"
    /\ IF turn.raised # None \/ turn.got = Some(NoResult)
       THEN /\ turn' = [turn EXCEPT
                          !.pc = "done", !.failure = "agent raised",
                          !.ret = Some(AskResult(Str(fallback(IF turn.raised # None
                                                              THEN turn.raised[1]
                                                              ELSE E_no_get)),
                                                 None))]
            /\ context_state' = [context_state EXCEPT !.last_response_successful = Some(FALSE)]
       ELSE /\ turn' = EnterRetry(
                         [turn EXCEPT
                            !.result = turn.got,
                            !.plot_filename =
                                extract_plot_filename(turn.got[1].intermediate_steps, None),
                            !.failure = IF turn.last = "rate" THEN "agent exhausted" ELSE @],
                         "response", ResponseRequest(turn.question))
            /\ UNCHANGED context_state
    /\ UNCHANGED <<serving, impl, storeCfg, allowCfg, connection, row_factory, LAST_QUERY_DATA,
                   last_query_data, now, lastCall>>

\* ask after invoke_with_retry(self.response_llm, ...): the final answer, or
\* the text of the inner except clause, is returned with plot_filename
AskAnswer ==
    /\ turn.pc = "over"
    /\ turn.target = "response"
    /\ turn' = IF turn.raised # None
               THEN [turn EXCEPT !.pc = "done", !.failure = "response raised",
                                 !.ret = Some(AskResult(Str(M_response_failed),
                                                        turn.plot_filename))]
               ELSE [turn EXCEPT !.pc = "done",
                                 !.failure = IF turn.last = "rate" THEN "response exhausted" ELSE @,
                                 !.ret = Some(AskResult(final_answer_of(turn.got[1]),
                                                        turn.plot_filename))]
    /\ context_state' = [context_state EXCEPT !.last_response_successful = Some(TRUE)]
    /\ UNCHANGED <<serving, impl, storeCfg, allowCfg, connection, row_factory, LAST_QUERY_DATA,
                   last_query_data, now, lastCall>>

\* the caller takes the pair and the agent waits for the next question
AskReturn ==
    /\ turn.pc = "done"
    /\ turn' = IdleTurn
    /\ UNCHANGED <<serving, impl, storeCfg, allowCfg, connection, row_factory, LAST_QUERY_DATA,
                   last_query_data, context_state, now, lastCall>>

AskNext ==
    \/ AskBegin
    \/ RetryInvoke
    \/ TurnSqlQuery
    \/ TurnCreatePlot
    \/ InvokeReturns
    \/ InvokeRaises
    \/ AskExtract
    \/ AskAnswer
    \/ AskReturn

AskSpec == AskInit /\ [][AskNext]_vars

----------------------------------------------------------------------------
(* app.py: one process and one agent serve every conversation               *)

\* the conversations open in browsers; app.py creates one agent at import
\* and every callback uses it.  The runs looked at here serve them at the
\* same time, within one second of the clock.
Conversations == {"A", "B"}
\* the questions asked and the tool calls made in a run, taken together
MaxEvents == 5
\* what the reasoning loop asks of the tools in these runs
ServeQueries == {Q_t, Q_big}
ServePlots == {P_heatmap}

\* A conversation between two turns.  pc: where the thread serving its turn
\* stands; turns and calls: the turns it asked and the tool calls it made;
\* history: the length of the chat history its running turn was begun with; op: the tool running; data and query: the locals of
\* sql_query_tool while it stores; mark: the store operation it is making;
\* stored: the rows it passed to its last store; used and handle: the rows
\* of the artifact its last call made and the filename returned for it.
IdleConv ==
    [pc |-> "idle", question |-> <<>>, turns |-> 0, calls |-> 0, history |-> 0,
     op |-> "none",
     data |-> <<>>, query |-> <<>>, mark |-> None, stored |-> None,
     used |-> None, handle |-> None]

\* the call before is over: what it made is the caller's now
NextCall(cv) == [cv EXCEPT !.calls = @ + 1, !.used = None, !.handle = None]

\* which store operation wrote each field of the cache; None: no one yet
NoOrigin == [data |-> None, query_info |-> None, timestamp |-> None]
WholeOrigin(mark) == [data |-> mark, query_info |-> mark, timestamp |-> mark]

RECURSIVE TurnsOf(_, _)
TurnsOf(cv, S) ==
    IF S = {} THEN 0
    ELSE LET c == CHOOSE x \in S : TRUE IN cv[c].turns + TurnsOf(cv, S \ {c})
TurnsBegun == TurnsOf(conv, Conversations)

RECURSIVE CallsOf(_, _)
CallsOf(cv, S) ==
    IF S = {} THEN 0
    ELSE LET c == CHOOSE x \in S : TRUE IN cv[c].calls + CallsOf(cv, S \ {c})
CallsMade == CallsOf(conv, Conversations)
\* the run goes on
MoreEvents == TurnsBegun + CallsMade < MaxEvents

\* the interval of the periodic clearing that utils.py keeps as a comment
reset_interval == 25

\* Mutation of save_context: should_clear_memory is in force and the memory
\* is cleared with every reset_interval-th exchange.
save_context_periodic(chat, input, output) ==
    IF (Len(chat) \div 2 + 1) % reset_interval = 0 THEN <<>>
    ELSE chat \o <<[type |-> "human", content |-> input], [type |-> "ai", content |-> output]>>

\* ConversationBufferMemory.save_context: the input and the output of the
\* invocation are appended as a human and an AI message
save_context(chat, input, output) ==
    chat \o <<[type |-> "human", content |-> input], [type |-> "ai", content |-> output]>>

\* Mutation of reset_memory: the result caches are cleared with the memory.
reset_memory_and_cache(agent) ==
    [agent EXCEPT !.memory = <<>>, !.LAST_QUERY_DATA = EmptyCache, !.last_query_data = None]

\* utils.py reset_memory(agent): agent.memory.clear()
reset_memory(agent) == [agent EXCEPT !.memory = <<>>]

\* Mutation of cached_rows: the rows the conversation stored itself.
cached_rows_own(shared, own) == IF own = None THEN shared ELSE own[1]

\* LAST_QUERY_DATA["data"] and self.last_query_data["data"]: the rows in the
\* one slot, whoever stored them (own: the rows the caller stored last)
cached_rows(shared, own) == shared

\* open(path, "w"): the files on disk after these are written
Written(disk, wrote) ==
    {f \in disk : \A g \in wrote : PathOf(g.dir, g.name) # PathOf(f.dir, f.name)} \cup wrote

\* the filename a successful plot or report call returned, else None
HandleOf(r) ==
    IF r.wrote = {} THEN None
    ELSE IF "plot_filename" \in DOMAIN r.ret THEN Some(r.ret.plot_filename)
    ELSE Some(r.ret.str)

ServeInit ==
    /\ impl \in {"tools", "agent"}
    /\ storeCfg = "plain"
    /\ allowCfg = "configured"
    /\ connection = "open"
    /\ row_factory = "None"
    /\ LAST_QUERY_DATA = EmptyCache
    /\ last_query_data = None
    /\ context_state = InitContext
    /\ now = 0
    /\ lastCall = NoCall
    /\ turn = IdleTurn
    /\ assets = {}
    /\ conv = [c \in Conversations |-> IdleConv]
    /\ memory = <<>>
    /\ origin = NoOrigin

\* a callback of the page calls agent.ask(user_input) in its thread
SrvAsk(c) ==
    /\ conv[c].pc = "idle"
    /\ MoreEvents
    /\ \E question \in Questions :
         conv' = [conv EXCEPT ![c].pc = "agent", ![c].question = question,
                              ![c].turns = @ + 1, ![c].history = Len(memory)]
    /\ UNCHANGED <<impl, storeCfg, allowCfg, connection, row_factory, LAST_QUERY_DATA,
                   last_query_data, context_state, now, lastCall, turn, assets, memory,
                   origin>>

\* tools.py sql_query_tool up to the call of store_query_data
SrvToolsSqlQuery(c) ==
    /\ impl = "tools"
    /\ conv[c].pc = "agent"
    /\ MoreEvents
    /\ \E query \in ServeQueries :
         \E r \in {execute_query(connection, row_factory, storeCfg, TRUE, query)} :
            /\ connection' = r.connection
            /\ row_factory' = r.row_factory
            /\ conv' = IF r.raised = <<>> /\ "success" \in DOMAIN r.ret /\ has_rows(r.ret)
                       THEN [conv EXCEPT ![c] = [NextCall(@) EXCEPT
                                                   !.pc = "store data", !.op = "SQL_Query",
                                                   !.data = r.ret.data, !.query = query,
                                                   !.mark = Some(<<c, conv[c].turns, conv[c].calls>>)]]
                       ELSE [conv EXCEPT ![c] = NextCall(@)]
    /\ UNCHANGED <<impl, storeCfg, allowCfg, LAST_QUERY_DATA, last_query_data, context_state,
                   now, lastCall, turn, assets, memory, origin>>

\* store_query_data: LAST_QUERY_DATA["data"] = data
SrvStoreData(c) ==
    /\ conv[c].pc = "store data"
    /\ LAST_QUERY_DATA' = [LAST_QUERY_DATA EXCEPT !.data = Some(conv[c].data)]
    /\ origin' = [origin EXCEPT !.data = conv[c].mark]
    /\ conv' = [conv EXCEPT ![c].pc = "store query_info"]
    /\ UNCHANGED <<impl, storeCfg, allowCfg, connection, row_factory, last_query_data,
                   context_state, now, lastCall, turn, assets, memory>>

\* store_query_data: LAST_QUERY_DATA["query_info"] = query_info
SrvStoreQueryInfo(c) ==
    /\ conv[c].pc = "store query_info"
    /\ LAST_QUERY_DATA' = [LAST_QUERY_DATA EXCEPT !.query_info = conv[c].query]
    /\ origin' = [origin EXCEPT !.query_info = conv[c].mark]
    /\ conv' = [conv EXCEPT ![c].pc = "store timestamp"]
    /\ UNCHANGED <<impl, storeCfg, allowCfg, connection, row_factory, last_query_data,
                   context_state, now, lastCall, turn, assets, memory>>

\* store_query_data: LAST_QUERY_DATA["timestamp"] = datetime.now(), and the
\* tool returns its preview to the loop
SrvStoreTimestamp(c) ==
    /\ conv[c].pc = "store timestamp"
    /\ LAST_QUERY_DATA' = [LAST_QUERY_DATA EXCEPT !.timestamp = Some(now)]
    /\ origin' = [origin EXCEPT !.timestamp = conv[c].mark]
    /\ conv' = [conv EXCEPT ![c].pc = "agent", ![c].op = "none",
                            ![c].stored = Some(conv[c].data), ![c].data = <<>>,
                            ![c].query = <<>>, ![c].mark = None]
    /\ UNCHANGED <<impl, storeCfg, allowCfg, connection, row_factory, last_query_data,
                   context_state, now, lastCall, turn, assets, memory>>

\* agent.py sql_query_tool: the plotter replaces its dict in one assignment
SrvAgentSqlQuery(c) ==
    /\ impl = "agent"
    /\ conv[c].pc = "agent"
    /\ MoreEvents
    /\ \E query \in ServeQueries :
         \E a \in {agent_sql_query_tool(last_query_data, context_state, connection,
                                        row_factory, storeCfg, TRUE, query, now)} :
            /\ connection' = a.out.connection
            /\ row_factory' = a.out.row_factory
            /\ last_query_data' = a.out.cache
            /\ context_state' = a.context_state
            /\ IF a.context_state.last_query_successful
               THEN /\ origin' = WholeOrigin(Some(<<c, conv[c].turns, conv[c].calls>>))
                    /\ conv' = [conv EXCEPT ![c] = [NextCall(@) EXCEPT
                                                      !.stored = Some(a.out.cache[1].data)]]
               ELSE /\ origin' = origin
                    /\ conv' = [conv EXCEPT ![c] = NextCall(@)]
    /\ UNCHANGED <<impl, storeCfg, allowCfg, LAST_QUERY_DATA, now, lastCall, turn, assets,
                   memory>>

\* the cache as the tool of conversation c reads it
ToolsCacheRead(c) ==
    [LAST_QUERY_DATA EXCEPT
       !.data = IF @ = None THEN None ELSE Some(cached_rows(@[1], conv[c].stored))]

\* tools.py create_plot_tool, run by the thread of c
SrvToolsCreatePlot(c) ==
    /\ impl = "tools"
    /\ conv[c].pc = "agent"
    /\ MoreEvents
    /\ \E plot_request \in ServePlots :
         \E r \in {create_plot_tool(ToolsCacheRead(c), ALLOWED_PLOTS(allowCfg), now,
                                    plot_request, TRUE, TRUE)} :
            /\ assets' = Written(assets, r.wrote)
            /\ conv' = [conv EXCEPT ![c] = [NextCall(@) EXCEPT
                                              !.used = IF r.wrote = {} THEN None
                                                       ELSE ToolsCacheRead(c).data,
                                              !.handle = HandleOf(r)]]
    /\ UNCHANGED <<impl, storeCfg, allowCfg, connection, row_factory, LAST_QUERY_DATA,
                   last_query_data, context_state, now, lastCall, turn, memory, origin>>

\* tools.py create_csv_report_tool, run by the thread of c: the TypeError of
\* an unset timestamp leaves the tool and ends the invocation
SrvToolsCreateReport(c) ==
    /\ impl = "tools"
    /\ conv[c].pc = "agent"
    /\ MoreEvents
    /\ \E r \in {create_csv_report_tool(ToolsCacheRead(c), now, TRUE)} :
            /\ assets' = Written(assets, r.wrote)
            /\ conv' = [conv EXCEPT ![c] = [NextCall(@) EXCEPT
                                              !.pc = IF r.raised = <<>> THEN "agent" ELSE "idle",
                                              !.question = IF r.raised = <<>> THEN @ ELSE <<>>,
                                              !.history = IF r.raised = <<>> THEN @ ELSE 0,
                                              !.used = IF r.wrote = {} THEN None
                                                       ELSE ToolsCacheRead(c).data,
                                              !.handle = HandleOf(r)]]
    /\ UNCHANGED <<impl, storeCfg, allowCfg, connection, row_factory, LAST_QUERY_DATA,
                   last_query_data, context_state, now, lastCall, turn, memory, origin>>

\* agent.py plot_tool: the plotter reads self.last_query_data once
SrvAgentPlot(c) ==
    /\ impl = "agent"
    /\ conv[c].pc = "agent"
    /\ MoreEvents
    /\ \E plot_request \in ServePlots :
         \E cache \in {IF last_query_data = None THEN None
                       ELSE Some([last_query_data[1] EXCEPT
                                    !.data = cached_rows(@, conv[c].stored)])} :
           \E r \in {agent_plot_tool(cache, context_state, allowed_plots(allowCfg), now,
                                     plot_request, TRUE)} :
              /\ context_state' = r.context_state
              /\ assets' = Written(assets, r.wrote)
              /\ conv' = [conv EXCEPT ![c] = [NextCall(@) EXCEPT
                                                !.used = IF r.wrote = {} THEN None
                                                         ELSE Some(cache[1].data),
                                                !.handle = HandleOf(r)]]
    /\ UNCHANGED <<impl, storeCfg, allowCfg, connection, row_factory, LAST_QUERY_DATA,
                   last_query_data, now, lastCall, turn, memory, origin>>

\* the loop gives its final answer: the executor saves the exchange in the
\* memory and ask returns to the callback
SrvAnswer(c) ==
    /\ conv[c].pc = "agent"
    /\ memory' = save_context(memory, AgentRequest(conv[c].question), TechnicalOutput)
    /\ conv' = [conv EXCEPT ![c].pc = "idle", ![c].used = None, ![c].handle = None,
                            ![c].question = <<>>, ![c].history = 0]
    /\ UNCHANGED <<impl, storeCfg, allowCfg, connection, row_factory, LAST_QUERY_DATA,
                   last_query_data, context_state, now, lastCall, turn, assets, origin>>

\* app.py clear_chat: the Clear button calls utils.reset_memory(agent)
SrvReset ==
    /\ \E a \in {reset_memory([memory |-> memory, LAST_QUERY_DATA |-> LAST_QUERY_DATA,
                               last_query_data |-> last_query_data])} :
         /\ memory' = a.memory
         /\ LAST_QUERY_DATA' = a.LAST_QUERY_DATA
         /\ last_query_data' = a.last_query_data
    /\ UNCHANGED <<impl, storeCfg, allowCfg, connection, row_factory, context_state, now,
                   lastCall, turn, assets, conv, origin>>

ServeNext ==
    \/ \E c \in Conversations : SrvAsk(c)
    \/ \E c \in Conversations : SrvToolsSqlQuery(c)
    \/ \E c \in Conversations : SrvStoreData(c)
    \/ \E c \in Conversations : SrvStoreQueryInfo(c)
    \/ \E c \in Conversations : SrvStoreTimestamp(c)
    \/ \E c \in Conversations : SrvAgentSqlQuery(c)
    \/ \E c \in Conversations : SrvToolsCreatePlot(c)
    \/ \E c \in Conversations : SrvToolsCreateReport(c)
    \/ \E c \in Conversations : SrvAgentPlot(c)
    \/ \E c \in Conversations : SrvAnswer(c)
    \/ SrvReset

ServeSpec == ServeInit /\ [][ServeNext]_vars

----------------------------------------------------------------------------
(* agent.py: the executor initialize_agent builds, as __init__ configures it *)

\* max_iterations=15, max_execution_time=75 (seconds)
max_iterations == 15
max_execution_time == 75
\* what the reasoning model gives back in a round trip: a tool call, a text
\* the output parser cannot read, or the final answer
ModelOutputs == {"action", "malformed", "final"}
\* the seconds a round trip takes
RoundTrip == {0, 25}
\* handle_parsing_errors=True: the observation given for an unreadable output
M_invalid == <<"Invalid or incomplete response">>
\* the output of a loop stopped at a limit (early stopping by "force")
M_stopped == <<"Agent stopped due to iteration limit or time limit.">>

\* Mutation of should_continue: one more iteration is allowed.
should_continue_once_more(iterations, time_elapsed) ==
    iterations <= max_iterations /\ time_elapsed < max_execution_time

\* the loop goes on while neither limit is reached
should_continue(iterations, time_elapsed) ==
    iterations < max_iterations /\ time_elapsed < max_execution_time

\* The executor between two invocations.  iterations and time_elapsed: the
\* counters of the loop; corrective: the observations given for unreadable
\* outputs; observation: the last one; how, output and raised: how the loop
\* ended, with what output or what exception.
IdleLoop ==
    [pc |-> "idle", iterations |-> 0, time_elapsed |-> 0, corrective |-> 0,
     observation |-> <<>>, how |-> "none", output |-> None, raised |-> None]

\* one round trip: the model is asked and its output is acted on
take_next_step(t, out, d) ==
    IF out = "final"
    THEN [t EXCEPT !.pc = "over", !.how = "finish", !.output = Some(TechnicalOutput)]
    ELSE [t EXCEPT !.iterations = @ + 1, !.time_elapsed = @ + d,
                   !.corrective = IF out = "malformed" THEN @ + 1 ELSE @,
                   !.observation = IF out = "malformed" THEN M_invalid ELSE <<"tool">>]

LoopInit ==
    /\ impl = "agent"
    /\ storeCfg = "plain"
    /\ allowCfg = "configured"
    /\ connection = "open"
    /\ row_factory = "None"
    /\ LAST_QUERY_DATA = EmptyCache
    /\ last_query_data = None
    /\ context_state = InitContext
    /\ now = 0
    /\ lastCall = NoCall
    /\ turn = IdleLoop
    /\ assets = {}
    /\ conv = <<>>
    /\ memory = <<>>
    /\ origin = <<>>

\* self.agent.invoke(...) is called
LoopInvoke ==
    /\ turn.pc = "idle"
    /\ turn' = [IdleLoop EXCEPT !.pc = "loop"]
    /\ UNCHANGED <<serving, impl, storeCfg, allowCfg, connection, row_factory,
                   LAST_QUERY_DATA, last_query_data, context_state, now, lastCall>>

\* while self._should_continue(iterations, time_elapsed): a round trip
LoopStep ==
    /\ turn.pc = "loop"
    /\ should_continue(turn.iterations, turn.time_elapsed)
    /\ \E out \in ModelOutputs, d \in RoundTrip : turn' = take_next_step(turn, out, d)
    /\ UNCHANGED <<serving, impl, storeCfg, allowCfg, connection, row_factory,
                   LAST_QUERY_DATA, last_query_data, context_state, now, lastCall>>

\* the call of the model raises: the exception leaves invoke
LoopRaise ==
    /\ turn.pc = "loop"
    /\ should_continue(turn.iterations, turn.time_elapsed)
    /\ \E e \in InvocationErrors :
         turn' = [turn EXCEPT !.pc = "over", !.how = "raise", !.raised = Some(e)]
    /\ UNCHANGED <<serving, impl, storeCfg, allowCfg, connection, row_factory,
                   LAST_QUERY_DATA, last_query_data, context_state, now, lastCall>>

\* a limit is reached: the loop is left and the stopping response returned
LoopStop ==
    /\ turn.pc = "loop"
    /\ ~should_continue(turn.iterations, turn.time_elapsed)
    /\ turn' = [turn EXCEPT !.pc = "over", !.how = "stop", !.output = Some(M_stopped)]
    /\ UNCHANGED <<serving, impl, storeCfg, allowCfg, connection, row_factory,
                   LAST_QUERY_DATA, last_query_data, context_state, now, lastCall>>

\* the caller has the outcome and the executor waits for the next invocation
LoopReturn ==
    /\ turn.pc = "over"
    /\ turn' = IdleLoop
    /\ UNCHANGED <<serving, impl, storeCfg, allowCfg, connection, row_factory,
                   LAST_QUERY_DATA, last_query_data, context_state, now, lastCall>>

LoopNext ==
    \/ LoopInvoke
    \/ LoopStep
    \/ LoopRaise
    \/ LoopStop
    \/ LoopReturn

\* a running invocation is not left waiting for ever
LoopSpec == LoopInit /\ [][LoopNext]_vars /\ WF_vars(LoopNext)

----------------------------------------------------------------------------
(* A long conversation: the turns of one chat, one after the other.  ask    *)
(* hands the question to invoke_with_retry (agent.py:391); the executor     *)
(* saves the exchange to self.memory when the invocation returns and saves  *)
(* nothing when it raises.  should_clear_memory is a comment (utils.py:     *)
(* 45-54): nothing counts the turns, conversation_count stays as __init__   *)
(* set it, and only clear_chat clears the memory.                           *)

\* the turns of the chat, and the invocations among them that raise
MaxTurns == 26
MaxRaised == 1

\* the n-th question of the chat and the answer to it
ChatQuestion(n) == <<"question ", ToString(n)>>
ChatAnswer(n) == <<"answer ", ToString(n)>>

\* the position in the chat: the turns asked, the invocations that raised,
\* and whether the Clear button was used
IdleChat == [pc |-> "idle", asked |-> 0, raised |-> 0, cleared |-> FALSE]

ChatInit ==
    /\ impl \in {"tools", "agent"}
    /\ storeCfg = "plain"
    /\ allowCfg = "configured"
    /\ connection = "open"
    /\ row_factory = "None"
    /\ LAST_QUERY_DATA = EmptyCache
    /\ last_query_data = None
    /\ context_state = InitContext
    /\ now = 0
    /\ lastCall = NoCall
    /\ turn = IdleChat
    /\ assets = {}
    /\ conv = <<>>
    /\ memory = <<>>
    /\ origin = <<>>

\* RNAseqAgent.ask(question) up to the invocation of the executor
ChatAsk ==
    /\ turn.pc = "idle"
    /\ turn.asked < MaxTurns
    /\ turn' = [turn EXCEPT !.pc = "invoke", !.asked = @ + 1]
    /\ UNCHANGED <<impl, storeCfg, allowCfg, connection, row_factory, LAST_QUERY_DATA,
                   last_query_data, context_state, now, lastCall, assets, conv, memory, origin>>

\* the invocation returns: the exchange is saved, ask returns its answer
ChatReturn ==
    /\ turn.pc = "invoke"
    /\ memory' = save_context(memory, AgentRequest(ChatQuestion(turn.asked)),
                              ChatAnswer(turn.asked))
    /\ turn' = [turn EXCEPT !.pc = "idle"]
    /\ UNCHANGED <<impl, storeCfg, allowCfg, connection, row_factory, LAST_QUERY_DATA,
                   last_query_data, context_state, now, lastCall, assets, conv, origin>>

\* the invocation raises, or gives up at capacity: nothing is saved, ask
\* returns its fallback answer
ChatRaise ==
    /\ turn.pc = "invoke"
    /\ turn.raised < MaxRaised
    /\ turn' = [turn EXCEPT !.pc = "idle", !.raised = @ + 1]
    /\ UNCHANGED <<impl, storeCfg, allowCfg, connection, row_factory, LAST_QUERY_DATA,
                   last_query_data, context_state, now, lastCall, assets, conv, memory, origin>>

\* app.py clear_chat, between two turns or during one
ChatClear ==
    /\ \E a \in {reset_memory([memory |-> memory, LAST_QUERY_DATA |-> LAST_QUERY_DATA,
                               last_query_data |-> last_query_data])} :
         /\ memory' = a.memory
         /\ LAST_QUERY_DATA' = a.LAST_QUERY_DATA
         /\ last_query_data' = a.last_query_data
    /\ turn' = [turn EXCEPT !.cleared = TRUE]
    /\ UNCHANGED <<impl, storeCfg, allowCfg, connection, row_factory, context_state, now,
                   lastCall, assets, conv, origin>>

ChatNext ==
    \/ ChatAsk
    \/ ChatReturn
    \/ ChatRaise
    \/ ChatClear

ChatSpec == ChatInit /\ [][ChatNext]_vars

----------------------------------------------------------------------------
(* database.py under two threads.  The connection is opened with            *)
(* check_same_thread=False (database.py:17) and the page serves its         *)
(* callbacks in threads, so two calls of the gateway can be under way at    *)
(* once.  A call assigns connection.row_factory and then creates its        *)
(* cursor; the cursor takes the row format the connection has at that       *)
(* moment and keeps it.  The steps of a call are the statements between     *)
(* which the other thread can run.                                          *)

Threads == {"T1", "T2"}
ThreadOps == {"execute_query", "get_table_names", "get_table_info"}
\* statements that the store executes without error
ThreadQueries == {Q_t, Q_big, Q_empty}

\* the row format a call assigns: sqlite3.Row in execute_query (36), None
\* in get_table_names (58) and get_table_info (74)
own_format(op) == IF op = "execute_query" THEN "Row" ELSE "None"

\* cursor.fetchall(): sqlite3.Row objects, or tuples of the values
fetchall(format, rows) ==
    [i \in 1..Len(rows) |->
        IF format = "Row" THEN [row |-> rows[i]]
        ELSE [tuple |-> [j \in 1..Len(rows[i]) |-> rows[i][j].v]]]

\* row[i] for a Row and for a tuple, i counted from 0
item(r, i) == IF "row" \in DOMAIN r THEN r.row[i + 1].v ELSE r.tuple[i + 1]

\* the messages of dict() for a tuple: its first element is a text that
\* does not have two characters, or is no sequence at all
E_dict_length(v) ==
    <<"dictionary update sequence element #0 has length len(">> \o v \o <<"); 2 is required">>
E_dict_convert ==
    <<"cannot convert dictionary update sequence element #0 to a sequence">>

\* Mutation of to_dicts: a tuple is read by position.
to_dicts_by_position(fetched) ==
    [exc |-> <<>>,
     data |-> [i \in 1..Len(fetched) |->
                 IF "row" \in DOMAIN fetched[i] THEN fetched[i].row
                 ELSE [j \in 1..Len(fetched[i].tuple) |->
                          Pair(<<ToString(j - 1)>>, fetched[i].tuple[j])]]]

\* [dict(row) for row in rows]: the exception of the first row that is a
\* tuple (no value of the model is a text of two characters), or the rows
\* as dicts
to_dicts(fetched) ==
    IF \E i \in 1..Len(fetched) : "tuple" \in DOMAIN fetched[i]
    THEN [exc |-> IF fetched[1].tuple[1].ty = "str"
                  THEN E_dict_length(fetched[1].tuple[1].v) ELSE E_dict_convert,
          data |-> <<>>]
    ELSE [exc |-> <<>>, data |-> [i \in 1..Len(fetched) |-> fetched[i].row]]

\* execute_query from cursor.execute(query) on (38-50), for a cursor of the
\* given row format
execute_query_fetch(format, cfg, query) ==
    LET converted(cur, d) ==
            IF d.exc # <<>> THEN [error |-> <<"Query execution failed: ">> \o d.exc]
            ELSE [success |-> TRUE, data |-> d.data, columns |-> cur.columns,
                  row_count |-> Len(d.data)]
        fetched(cur) ==
            IF cur.exc # <<>> THEN [error |-> <<"Query execution failed: ">> \o cur.exc]
            ELSE IF cur.description_none
            THEN [error |-> <<"Query execution failed: ">> \o E_not_iterable]
            ELSE converted(cur, to_dicts(fetchall(format, cur.rows)))
    IN  fetched(SqliteExecute(cfg, query))

\* [row[0] for row in cursor.fetchall()] (61)
table_names_fetch(format, cfg) ==
    LET named(fetched) == [i \in 1..Len(fetched) |-> item(fetched[i], 0).v]
    IN  named(fetchall(format, SqliteExecute(cfg, Q_master).rows))

\* [{"name": col[1], "type": col[2]} for col in columns] (84)
table_columns_fetch(format, cfg, tb) ==
    LET described(fetched) ==
            [i \in 1..Len(fetched) |->
                [name |-> item(fetched[i], 1).v, type |-> item(fetched[i], 2).v]]
    IN  described(fetchall(format, SqliteExecute(cfg, PragmaText(tb)).rows))

\* A thread.  pc: "idle", "outer assign" (get_table_info before line 74),
\* "assign" (before the assignment of 36 or 58), "cursor" (before
\* connection.cursor()), "fetch" (before execute and fetchall), "done".
\* format: the row format of its cursor; overlap: the other thread has
\* assigned row_factory since this call did; todo and listed: the tables
\* get_table_info has still to describe and those it has described.
IdleThread ==
    [pc |-> "idle", op |-> "none", query |-> <<>>, format |-> "None", overlap |-> FALSE,
     named |-> FALSE, todo |-> <<>>, listed |-> <<>>, ret |-> NoResult]

ThreadInit ==
    /\ impl \in {"tools", "agent"}
    /\ storeCfg = "plain"
    /\ allowCfg = "configured"
    /\ connection = "open"
    /\ row_factory = "None"
    /\ LAST_QUERY_DATA = EmptyCache
    /\ last_query_data = None
    /\ context_state = InitContext
    /\ now = 0
    /\ lastCall = NoCall
    /\ turn = IdleTurn
    /\ assets = {}
    /\ conv = [t \in Threads |-> IdleThread]
    /\ memory = <<>>
    /\ origin = <<>>

\* the other threads that have assigned and not yet made their last cursor
Assigned(t) == {u \in Threads \ {t} : conv[u].pc \in {"cursor", "fetch"}}

\* a thread enters an operation of the gateway
ThCall(t) ==
    /\ conv[t].pc = "idle"
    /\ \E op \in ThreadOps, query \in ThreadQueries :
         conv' = [conv EXCEPT ![t] =
                     [IdleThread EXCEPT
                         !.pc = IF op = "get_table_info" THEN "outer assign" ELSE "assign",
                         !.op = op,
                         !.query = IF op = "execute_query" THEN query ELSE <<>>]]
    /\ UNCHANGED <<impl, storeCfg, allowCfg, connection, row_factory, LAST_QUERY_DATA,
                   last_query_data, context_state, now, lastCall, turn, assets, memory, origin>>

\* get_table_info: self.connection.row_factory = None (74), then
\* get_table_names is entered
ThOuterAssign(t) ==
    /\ conv[t].pc = "outer assign"
    /\ row_factory' = "None"
    /\ conv' = [u \in Threads |->
                  IF u = t THEN [conv[t] EXCEPT !.pc = "assign"]
                  ELSE IF u \in Assigned(t) THEN [conv[u] EXCEPT !.overlap = TRUE]
                  ELSE conv[u]]
    /\ UNCHANGED <<impl, storeCfg, allowCfg, connection, LAST_QUERY_DATA,
                   last_query_data, context_state, now, lastCall, turn, assets, memory, origin>>

\* self.connection.row_factory = sqlite3.Row (36) or None (58)
ThAssign(t) ==
    /\ conv[t].pc = "assign"
    /\ row_factory' = own_format(conv[t].op)
    /\ conv' = [u \in Threads |->
                  IF u = t THEN [conv[t] EXCEPT !.pc = "cursor", !.overlap = FALSE]
                  ELSE IF u \in Assigned(t) THEN [conv[u] EXCEPT !.overlap = TRUE]
                  ELSE conv[u]]
    /\ UNCHANGED <<impl, storeCfg, allowCfg, connection, LAST_QUERY_DATA,
                   last_query_data, context_state, now, lastCall, turn, assets, memory, origin>>

\* cursor = self.connection.cursor() (37, 59, 79)
ThCursor(t) ==
    /\ conv[t].pc = "cursor"
    /\ conv' = [conv EXCEPT ![t].pc = "fetch", ![t].format = row_factory]
    /\ UNCHANGED <<impl, storeCfg, allowCfg, connection, row_factory, LAST_QUERY_DATA,
                   last_query_data, context_state, now, lastCall, turn, assets, memory, origin>>

\* execute, fetchall and what the operation makes of the rows: execute_query
\* and get_table_names return; get_table_info takes the names, or describes
\* the next table, and returns when no table is left
ThFetch(t) ==
    /\ conv[t].pc = "fetch"
    /\ conv' = [conv EXCEPT ![t] =
          IF conv[t].op = "execute_query"
          THEN [@ EXCEPT !.pc = "done",
                         !.ret = execute_query_fetch(conv[t].format, storeCfg, conv[t].query)]
          ELSE IF conv[t].op = "get_table_names"
          THEN [@ EXCEPT !.pc = "done",
                         !.ret = [list |-> table_names_fetch(conv[t].format, storeCfg)]]
          ELSE IF ~conv[t].named
          THEN LET names(list) ==
                       IF list = <<>>
                       THEN [conv[t] EXCEPT !.pc = "done", !.named = TRUE,
                                            !.ret = [success |-> TRUE, tables |-> <<>>]]
                       ELSE [conv[t] EXCEPT !.pc = "cursor", !.named = TRUE, !.todo = list]
               IN  names(table_names_fetch(conv[t].format, storeCfg))
          ELSE LET described(listed) ==
                       IF Len(conv[t].todo) = 1
                       THEN [conv[t] EXCEPT !.pc = "done", !.todo = <<>>, !.listed = listed,
                                            !.ret = [success |-> TRUE, tables |-> listed]]
                       ELSE [conv[t] EXCEPT !.pc = "cursor", !.todo = Tail(@),
                                            !.listed = listed]
               IN  described(Append(conv[t].listed,
                        [table |-> conv[t].todo[1],
                         columns |-> table_columns_fetch(conv[t].format, storeCfg,
                                                         conv[t].todo[1]),
                         sample_query |-> sample_query(conv[t].todo[1])]))]
    /\ UNCHANGED <<impl, storeCfg, allowCfg, connection, row_factory, LAST_QUERY_DATA,
                   last_query_data, context_state, now, lastCall, turn, assets, memory, origin>>

\* the caller takes the result
ThReturn(t) ==
    /\ conv[t].pc = "done"
    /\ conv' = [conv EXCEPT ![t] = IdleThread]
    /\ UNCHANGED <<impl, storeCfg, allowCfg, connection, row_factory, LAST_QUERY_DATA,
                   last_query_data, context_state, now, lastCall, turn, assets, memory, origin>>

ThreadNext ==
    \/ \E t \in Threads : ThCall(t)
    \/ \E t \in Threads : ThOuterAssign(t)
    \/ \E t \in Threads : ThAssign(t)
    \/ \E t \in Threads : ThCursor(t)
    \/ \E t \in Threads : ThFetch(t)
    \/ \E t \in Threads : ThReturn(t)

ThreadSpec == ThreadInit /\ [][ThreadNext]_vars

----------------------------------------------------------------------------
(* app.py: the chat page.  show_user_message appends the user's message,    *)
(* shows the loading overlay and triggers process_bot_response, which is    *)
(* called with the chat history of that moment; clear_chat empties the      *)
(* page.  One message is pending at a time.                                 *)

\* the user messages sent in a run
MaxInputs == 3
\* the texts typed
PageInputs == {<<"What genes are upregulated?">>, <<"Plot them">>, <<" ", " ">>}
\* the chart a turn may have made, and its file under the project directory
PagePlot == <<"heatmap_", "20240101_000000", ".html">>
PagePlotFile == File("assets/plots", PagePlot, <<"<html>">>)
\* an exception that leaves agent.ask
E_ask == <<"maximum recursion depth exceeded">>

\* a Python tuple and a Python dict (the (key, value) pairs in order)
PyTuple(items) == [tuple |-> items]
PyDict(pairs) == [dict |-> pairs]

\* Mutation of ask_return: a mapping with the keys the page reads.
ask_return_mapping(final_answer, plot_filename) ==
    PyDict(<<Pair("final_answer", final_answer), Pair("plot_filename", plot_filename)>>)

\* return final_answer, plot_filename (agent.py:500) and return fallback,
\* None (508)
ask_return(final_answer, plot_filename) == PyTuple(<<final_answer, plot_filename>>)

\* how agent.ask ends for the page: what it returns, or the exception
PageAsked(ret, raised) == [ret |-> ret, raised |-> raised]
NotAsked == PageAsked(NoResult, <<>>)
AskOutcomes ==
    {PageAsked(ask_return(ResponseContent, None), <<>>),
     PageAsked(ask_return(ResponseContent, Some(PagePlot)), <<>>),
     PageAsked(ask_return(fallback(E_deadline), None), <<>>),
     PageAsked(NoResult, E_ask)}

\* the message of a tuple that is asked for .get
E_tuple_get == <<"'tuple' object has no attribute 'get'">>

\* result.get(key, default): the exception it raises (none: <<>>) and the value
result_get(result, key, default) ==
    IF "dict" \notin DOMAIN result THEN [exc |-> E_tuple_get, value |-> default]
    ELSE [exc |-> <<>>,
          value |-> IF HasKey(result.dict, key) THEN Get(result.dict, key)[1] ELSE default]

\* the messages of the chat history
UserMessage(content) == [role |-> "user", content |-> content]
BotMessage(content, html_plot, report_filename, csv_preview_html) ==
    [role |-> "bot", content |-> content, html_plot |-> html_plot,
     report_filename |-> report_filename, csv_preview_html |-> csv_preview_html]

\* dash.no_update
no_update == [no_update |-> TRUE]

\* create_user_message / create_bot_message for every message of the chat
Rendered(chat) ==
    [i \in 1..Len(chat) |->
        IF chat[i].role = "user" THEN [user |-> chat[i].content]
        ELSE [bot |-> chat[i].content, html_content |-> chat[i].html_plot,
              csv_preview_html |-> chat[i].csv_preview_html,
              csv_filename |-> chat[i].report_filename]]

\* the outputs of a callback of the page
PageOut(window, loading, chat) == [window |-> window, loading |-> loading, chat |-> chat]

\* the content of the file at the path, if there is one
ReadFile(disk, dir, name) ==
    IF \E f \in disk : PathOf(f.dir, f.name) = PathOf(dir, name)
    THEN Some((CHOOSE f \in disk : PathOf(f.dir, f.name) = PathOf(dir, name)).content)
    ELSE None

\* app.py process_bot_response(trigger_counter, chat_history), for the way
\* agent.ask ends and the files under the project directory
process_bot_response(chat_history, asked, disk) ==
    IF chat_history = <<>> THEN PageOut(no_update, FALSE, no_update)
    ELSE IF chat_history[Len(chat_history)].role # "user"
    THEN PageOut(no_update, FALSE, no_update)
    ELSE LET failed(e) ==
                 Append(chat_history,
                        BotMessage(<<"I encountered an error while processing your question: ">>
                                     \o e \o <<".">>, None, None, None))
             shown(answer, plot_filename, report_filename) ==
                 Append(chat_history,
                        BotMessage(answer,
                                   IF plot_filename = None THEN None
                                   ELSE ReadFile(disk, "assets/plots", plot_filename[1]),
                                   report_filename,
                                   IF report_filename = None
                                      \/ ReadFile(disk, "assets/reports", report_filename[1]) = None
                                   THEN None
                                   ELSE Some(<<"preview of ">> \o report_filename[1])))
             read(a, p, r) ==
                 IF a.exc # <<>> THEN failed(a.exc)
                 ELSE IF p.exc # <<>> THEN failed(p.exc)
                 ELSE IF r.exc # <<>> THEN failed(r.exc)
                 ELSE shown(a.value, p.value, r.value)
             updated(chat) == PageOut(Rendered(chat), FALSE, chat)
         IN  updated(IF asked.raised # <<>> THEN failed(asked.raised)
                     ELSE read(result_get(asked.ret, "final_answer", <<"No response received.">>),
                               result_get(asked.ret, "plot_filename", None),
                               result_get(asked.ret, "report_filename", None)))

\* The page.  pc: "idle" or "pending" (process_bot_response has been
\* triggered and has not returned); chat_history, loading and trigger: the
\* stores of the page; window: the children of the chat window; captured:
\* the chat history process_bot_response was called with; asked: how
\* agent.ask ended in the last call; sent: the messages sent so far.
IdlePage ==
    [pc |-> "idle", chat_history |-> <<>>, loading |-> FALSE, trigger |-> 0,
     window |-> <<>>, captured |-> <<>>, asked |-> NotAsked, sent |-> 0]

PageInit ==
    /\ impl = "agent"
    /\ storeCfg = "plain"
    /\ allowCfg = "configured"
    /\ connection = "open"
    /\ row_factory = "None"
    /\ LAST_QUERY_DATA = EmptyCache
    /\ last_query_data = None
    /\ context_state = InitContext
    /\ now = 0
    /\ lastCall = NoCall
    /\ turn = IdleTurn
    /\ assets \in {{}, {PagePlotFile}}
    /\ conv = IdlePage
    /\ memory = <<>>
    /\ origin = <<>>

\* app.py show_user_message: a blank input changes nothing; another is
\* appended to the history, the overlay is shown and the trigger counted up
PageSend ==
    /\ conv.pc = "idle"
    /\ conv.sent < MaxInputs
    /\ \E user_input \in PageInputs :
         conv' = IF Strip(user_input) = <<>>
                 THEN [conv EXCEPT !.loading = FALSE, !.sent = @ + 1]
                 ELSE [conv EXCEPT
                          !.pc = "pending",
                          !.chat_history = Append(@, UserMessage(user_input)),
                          !.captured = Append(conv.chat_history, UserMessage(user_input)),
                          !.window = Rendered(Append(conv.chat_history, UserMessage(user_input))),
                          !.loading = TRUE,
                          !.trigger = @ + 1,
                          !.sent = @ + 1]
    /\ UNCHANGED <<impl, storeCfg, allowCfg, connection, row_factory, LAST_QUERY_DATA,
                   last_query_data, context_state, now, lastCall, turn, assets, memory, origin>>

\* app.py process_bot_response, from its call to its return
PageRespond ==
    /\ conv.pc = "pending"
    /\ \E asked \in AskOutcomes :
         \E out \in {process_bot_response(conv.captured, asked, assets)} :
            conv' = [conv EXCEPT
                        !.pc = "idle",
                        !.asked = asked,
                        !.loading = out.loading,
                        !.window = IF out.window = no_update THEN @ ELSE out.window,
                        !.chat_history = IF out.chat = no_update THEN @ ELSE out.chat]
    /\ UNCHANGED <<impl, storeCfg, allowCfg, connection, row_factory, LAST_QUERY_DATA,
                   last_query_data, context_state, now, lastCall, turn, assets, memory, origin>>

\* app.py clear_chat: the memory is reset, the window and the history are
\* emptied
PageClear ==
    /\ conv.chat_history # <<>>
    /\ \E a \in {reset_memory([memory |-> memory, LAST_QUERY_DATA |-> LAST_QUERY_DATA,
                               last_query_data |-> last_query_data])} :
         /\ memory' = a.memory
         /\ LAST_QUERY_DATA' = a.LAST_QUERY_DATA
         /\ last_query_data' = a.last_query_data
    /\ conv' = [conv EXCEPT !.window = <<>>, !.chat_history = <<>>]
    /\ UNCHANGED <<impl, storeCfg, allowCfg, connection, row_factory, context_state, now,
                   lastCall, turn, assets, origin>>

PageNext ==
    \/ PageSend
    \/ PageRespond
    \/ PageClear

PageSpec == PageInit /\ [][PageNext]_vars

----------------------------------------------------------------------------
(* The properties                                                           *)

\* The result cache of the running tool set, read the same way for both:
\* data (None or the rows), query_info, timestamp (None or the time).
CacheView ==
    IF impl = "tools" THEN LAST_QUERY_DATA
    ELSE IF last_query_data = None THEN EmptyCache
    ELSE [data |-> Some(last_query_data[1].data),
          query_info |-> last_query_data[1].query_info,
          timestamp |-> Some(last_query_data[1].timestamp)]

\* the cache holds rows; their age when the last call started
HasData == Truthy(CacheView.data)
Age == lastCall.start - CacheView.timestamp[1]
Stale == Age > StaleAfter

ToolNames ==
    {"SQL_Query", "Database_Schema", "Sample_Column_Values", "Create_Plot", "Create_Report"}
PlotTools == {"Create_Plot", "Create_Report"}

\* the last call was a query that succeeded with at least one row
QuerySucceededWithRows ==
    /\ "success" \in DOMAIN lastCall.dbres
    /\ lastCall.dbres.row_count > 0

\* the chart type and the parameters the last Create_Plot request names, as
\* the running tool set reads them
RequestedType ==
    IF impl = "tools" THEN Lower(Strip(Split(lastCall.input, "|")[1]))
    ELSE Strip(Split(lastCall.input, "|")[1])
RequestedParams == ParseParams(Tail(Split(lastCall.input, "|")), <<>>)
Allowed == IF impl = "tools" THEN ALLOWED_PLOTS(allowCfg) ELSE allowed_plots(allowCfg)
UnknownRequested == RequestedType \notin Range(Allowed)

\* the request gives the parameter and it names a column of the cached rows
Named(key) ==
    /\ Get(RequestedParams, key) # None
    /\ Get(RequestedParams, key)[1] \in Range(DfColumns(CacheView.data[1]))
\* the request gives the parameter and it names no column of the cached rows
NamedAbsent(key) ==
    /\ Truthy(Get(RequestedParams, key))
    /\ Get(RequestedParams, key)[1] \notin Range(DfColumns(CacheView.data[1]))

\* the observation of the last call is this text; it begins with this piece
Returned(text) == lastCall.ret = Str(text)
StartsWith(piece) ==
    /\ "str" \in DOMAIN lastCall.ret
    /\ lastCall.ret.str # <<>>
    /\ lastCall.ret.str[1] = piece

\* the errors of the plot and report tools, per tool and tool set
NoDataMessage ==
    IF lastCall.op = "Create_Report" THEN M_report_no_data
    ELSE IF impl = "tools" THEN M_plot_no_data
    ELSE M_agent_no_data
StaleMessage ==
    IF lastCall.op = "Create_Report" THEN M_report_stale ELSE M_plot_stale
UnknownTypeMessage ==
    IF impl = "tools" THEN M_plot_not_allowed(RequestedType, Allowed)
    ELSE <<"Plot creation failed: ">> \o M_plotter_not_allowed(RequestedType, Allowed)

\* C1: every query whose upper-cased text contains DROP, DELETE, INSERT,
\* UPDATE, ALTER or CREATE is answered by execute_query with the rejection
\* and without any call to the store, whatever the state of the connection.
\* (Violated: with no connection, execute_query calls connect() first.)
C1_RejectedWithoutStore ==
    (lastCall.op = "execute_query" /\ IsDangerous(lastCall.input))
        => /\ lastCall.ret = [error |-> <<"Only SELECT queries are allowed">>]
           /\ lastCall.log = <<>>

\* C2: after every SQL_Query that succeeds with at least one row, the cache
\* holds exactly the full row list of that execution (not the preview), the
\* text of the query, and a timestamp not before the start of the call.
C2_CacheHoldsExecution ==
    (lastCall.op = "SQL_Query" /\ QuerySucceededWithRows)
        => /\ CacheView.data = Some(lastCall.dbres.data)
           /\ CacheView.query_info = lastCall.input
           /\ CacheView.timestamp # None
           /\ CacheView.timestamp[1] >= lastCall.start

\* a query of more rows than the preview shows has been stored whole, a
\* second after the call began
C2_Witness ==
    /\ lastCall.op = "SQL_Query"
    /\ QuerySucceededWithRows
    /\ lastCall.dbres.row_count > max_rows
    /\ Len(CacheView.data[1]) = lastCall.dbres.row_count
    /\ CacheView.timestamp[1] > lastCall.start

\* C3: the cache changes only in a SQL_Query that succeeds with at least one
\* row; every other step (rejected, failed and zero-row queries, and all
\* calls of the other tools) leaves its three fields as they were.
C3_CacheFrame ==
    [][CacheView' # CacheView
         => /\ lastCall'.op = "SQL_Query"
            /\ "success" \in DOMAIN lastCall'.dbres
            /\ lastCall'.dbres.row_count > 0]_vars

\* a query has failed and the cache still holds the rows of an earlier one
C3_Witness ==
    /\ lastCall.op = "SQL_Query"
    /\ "error" \in DOMAIN lastCall.dbres
    /\ HasData
    /\ CacheView.query_info # lastCall.input

\* C4: every Create_Plot and Create_Report call made while the cached result
\* is older than 120 seconds returns the stale-data error and writes no file.
\* (Violated: the plot tool of agent.py never reads the timestamp.)
C4_StaleRefused ==
    (lastCall.op \in PlotTools /\ HasData /\ Stale)
        => /\ Returned(StaleMessage)
           /\ lastCall.wrote = {}

\* C5: while no SQL_Query has succeeded with rows (the cache is as it was
\* constructed), Create_Plot and Create_Report return the no-data error and
\* write no file.
C5_NoDataRefused ==
    (lastCall.op \in PlotTools /\ ~HasData)
        => /\ Returned(NoDataMessage)
           /\ lastCall.wrote = {}

\* Create_Report was called on the empty cache after time had passed
C5_Witness ==
    /\ lastCall.op = "Create_Report"
    /\ ~HasData
    /\ lastCall.start > 0
    /\ Returned(M_report_no_data)

\* C6 as stated: for every chart type not in the allow-list, Create_Plot
\* returns the unknown-chart-type error whether the cache is empty, stale or
\* fresh.
C6_UnknownTypeAlways ==
    (lastCall.op = "Create_Plot" /\ UnknownRequested) => Returned(UnknownTypeMessage)

\* C6 amended: for every chart type not in the allow-list, Create_Plot writes
\* no file; the cache is read first, so the call returns the no-data error
\* on an empty cache, the stale-data error (tools.py) on rows older than 120
\* seconds, and the unknown-chart-type error otherwise.
C6_UnknownTypeAfterCache ==
    (lastCall.op = "Create_Plot" /\ UnknownRequested)
        => /\ lastCall.wrote = {}
           /\ Returned(IF ~HasData THEN NoDataMessage
                       ELSE IF impl = "tools" /\ Stale THEN StaleMessage
                       ELSE UnknownTypeMessage)

\* a chart type outside the allow-list was asked for on fresh rows
C6_Witness ==
    /\ lastCall.op = "Create_Plot"
    /\ UnknownRequested
    /\ HasData
    /\ ~Stale
    /\ Returned(UnknownTypeMessage)

C8_BothColumnsRequired ==
    (/\ impl = "tools"
     /\ lastCall.op = "Create_Plot"
     /\ HasData
     /\ ~Stale
     /\ ~UnknownRequested
     /\ RequestedType \in XYPlots)
        => /\ lastCall.wrote # {} => (Named(K_x_column) /\ Named(K_y_column))
           /\ ~(Named(K_x_column) /\ Named(K_y_column))
                => (StartsWith("Missing required columns: ") /\ lastCall.wrote = {})

\* C9: execute_query never raises: it returns a result, and when it fails the
\* result carries a non-empty error text.
C9_ExecuteQueryReturns ==
    lastCall.op = "execute_query"
        => /\ lastCall.raised = <<>>
           /\ \/ "success" \in DOMAIN lastCall.ret
              \/ ("error" \in DOMAIN lastCall.ret /\ lastCall.ret.error # <<>>)

\* sqlite3 raised inside execute_query and the caller got a result
C9_Witness ==
    /\ lastCall.op = "execute_query"
    /\ lastCall.raised = <<>>
    /\ "error" \in DOMAIN lastCall.ret
    /\ lastCall.ret.error # <<>>
    /\ lastCall.ret.error[1] = "Query execution failed: "

\* C10: no call of SQL_Query, Database_Schema, Sample_Column_Values,
\* Create_Plot or Create_Report lets an exception escape: each returns an
\* observation.
\* (Violated: json.dumps in the Sample_Column_Values tool of agent.py is
\* outside every try.)
C10_NoToolRaises ==
    lastCall.op \in ToolNames => lastCall.raised = <<>>

\* the recommendation of the running tool set, and whether the observation
\* of the last call holds it
Recommendation == IF impl = "tools" THEN RECOMMENDATION_tools ELSE RECOMMENDATION_agent
Recommends ==
    /\ "str" \in DOMAIN lastCall.ret
    /\ Contains(lastCall.ret.str, Recommendation)

\* the statement of the last SQL_Query reached the store and failed there
StoreFailed ==
    /\ "error" \in DOMAIN lastCall.dbres
    /\ lastCall.dbres.error # <<>>
    /\ lastCall.dbres.error[1] = "Query execution failed: "

\* C16: whenever the store fails the statement of a SQL_Query (syntax error,
\* missing table, missing column, any other error), the observation holds
\* the error text of the store and the recommendation to use Database_Schema
\* and Sample_Column_Values.
\* (Violated: tools.py adds the recommendation only for "no such table".)
C16_StoreErrorWithHint ==
    (lastCall.op = "SQL_Query" /\ StoreFailed)
        => /\ Contains(lastCall.ret.str, lastCall.dbres.error)
           /\ Recommends

\* the statement of the last call names a table the file does not have
NamesMissingTable ==
    /\ Meaning(lastCall.input).kind = "select"
    /\ ~IsTable(storeCfg, Meaning(lastCall.input).table)

Occurrences(s, x) == Cardinality({i \in 1..Len(s) : s[i] = x})

GatewayOps == {"execute_query", "get_table_names", "get_table_info"}

\* what the call would return on a connection that is open already
OnOpenConnection(op, input) ==
    IF op = "execute_query" THEN execute_query("open", "None", storeCfg, TRUE, input).ret
    ELSE IF op = "get_table_names" THEN get_table_names("open", "None", storeCfg, TRUE).ret
    ELSE get_table_info("open", "None", storeCfg, TRUE).ret

\* what the call returns when the connection cannot be made
ConnectionFailed(op) ==
    IF op = "get_table_names" THEN [list |-> <<>>]
    ELSE [error |-> <<"Database connection failed">>]

\* C18: a call of execute_query, get_table_names or get_table_info that
\* starts with no connection calls sqlite3.connect exactly once; if that
\* succeeds the call returns what it returns on an open connection, if it
\* fails the call returns the connection-failed outcome and does nothing
\* else; the same holds for the next call.
C18_OneReconnect ==
    [][(connection = "None" /\ lastCall'.op \in GatewayOps)
         => /\ Occurrences(lastCall'.log, "connect") = 1
            /\ lastCall'.raised = <<>>
            /\ connection' = "open"
                  => lastCall'.ret = OnOpenConnection(lastCall'.op, lastCall'.input)
            /\ connection' = "None"
                  => /\ lastCall'.ret = ConnectionFailed(lastCall'.op)
                     /\ lastCall'.log = <<"connect">>]_vars

\* a reconnect failed in one call, time passed, and it failed again in the
\* next
C18_Witness ==
    /\ lastCall.op \in GatewayOps
    /\ lastCall.log = <<"connect">>
    /\ connection = "None"
    /\ lastCall.ret = ConnectionFailed(lastCall.op)
    /\ lastCall.start > 0

\* C19: with a usable connection, get_table_info and Sample_Column_Values
\* return the entries of every table that can be introspected, also when
\* another table of the file cannot.
\* (Violated: get_table_info runs its loop in one try and returns an error
\* for the whole call.)
C19_BadTableOnlySkipped ==
    (connection = "open" /\ storeCfg # "empty")
        => /\ lastCall.op = "get_table_info"
                => /\ "success" \in DOMAIN lastCall.ret
                   /\ \A tb \in {T_t, T_big} :
                         \E i \in 1..Len(lastCall.ret.tables) : lastCall.ret.tables[i].table = tb
           /\ lastCall.op = "Sample_Column_Values"
                => /\ lastCall.raised = <<>>
                   /\ Contains(lastCall.ret.str, T_t \o <<".">> \o C_g)

AskReturned == turn.ret[1]
\* the intermediate steps of the result ask took the filename from
ResultSteps == turn.result[1].intermediate_steps

C12_FallbackWithoutHandle ==
    (turn.pc = "done" /\ turn.failure # "none") => AskReturned.plot_filename = None

\* the filename of the first step whose observation has one
FirstPlot(steps) ==
    steps[CHOOSE i \in 1..Len(steps) :
            /\ HasPlot(steps[i].observation)
            /\ \A j \in 1..(i - 1) : ~HasPlot(steps[j].observation)].observation.plot_filename

\* C13: when the intermediate steps of the turn hold chart files, ask
\* returns the filename of the first of them.
\* (Violated: the loop overwrites plot_filename and the last one is kept.)
C13_FirstPlotReturned ==
    (/\ turn.pc = "done"
     /\ turn.result # None
     /\ \E i \in 1..Len(ResultSteps) : HasPlot(ResultSteps[i].observation))
        => AskReturned.plot_filename = Some(FirstPlot(ResultSteps))

\* the filename of the last step whose observation has one
LastPlot(steps) ==
    steps[CHOOSE i \in 1..Len(steps) :
            /\ HasPlot(steps[i].observation)
            /\ \A j \in (i + 1)..Len(steps) : ~HasPlot(steps[j].observation)].observation.plot_filename

\* C13 (as the code has it): when the intermediate steps of the turn hold
\* chart files, ask returns the filename of the last of them, and None when
\* they hold none.
C13_LastPlotReturned ==
    (turn.pc = "done" /\ turn.result # None)
        => AskReturned.plot_filename =
             IF \E i \in 1..Len(ResultSteps) : HasPlot(ResultSteps[i].observation)
             THEN Some(LastPlot(ResultSteps))
             ELSE None

\* a turn that made two different charts has returned
C13_Witness ==
    /\ turn.pc = "done"
    /\ turn.result # None
    /\ Len(ResultSteps) = 2
    /\ HasPlot(ResultSteps[1].observation)
    /\ HasPlot(ResultSteps[2].observation)
    /\ ResultSteps[1].observation.plot_filename # ResultSteps[2].observation.plot_filename

\* C14: when every attempt of invoke_with_retry has failed with a rate-limit
\* or capacity error, invoke was called max_retries times with the request
\* of the call, nothing is raised, and the value returned is a record with a
\* non-empty output text and an empty list of intermediate steps.
C14_ExhaustedReturnsRecord ==
    (turn.pc = "over" /\ turn.last = "rate")
        => /\ turn.raised = None
           /\ turn.got # None
           /\ DOMAIN turn.got[1] = {"output", "intermediate_steps"}
           /\ turn.got[1].output # <<>>
           /\ turn.got[1].intermediate_steps = <<>>
           /\ Len(turn.asked) = max_retries
           /\ \A i \in 1..Len(turn.asked) : turn.asked[i] = turn.request

\* the retries of the agent were exhausted in a turn whose attempts had
\* made a chart
C14_Witness ==
    /\ turn.pc = "over"
    /\ turn.last = "rate"
    /\ turn.target = "agent"
    /\ turn.made # {}
    /\ turn.got = Some(capacity_record)

\* C15: invoke_with_retry calls invoke at most max_retries times and sleeps
\* at most max_retries - 1 times, once after each failed attempt but the
\* last; the head of its loop is reached only while attempts are left, so
\* the call is over after at most max_retries invocations.
C15_BoundedAttempts ==
    /\ Len(turn.asked) <= max_retries
    /\ turn.slept <= max_retries - 1
    /\ turn.slept = turn.attempt
    /\ turn.pc = "retry" => (turn.attempt < max_retries /\ Len(turn.asked) = turn.attempt)
    /\ turn.pc \in {"running", "over"} => Len(turn.asked) = turn.attempt + 1

\* the last attempt allowed has been made, after max_retries - 1 sleeps
C15_Witness ==
    /\ turn.pc = "over"
    /\ Len(turn.asked) = max_retries
    /\ turn.slept = max_retries - 1
    /\ turn.delay > 0

\* the names of the columns of the cached rows
CachedColumns ==
    UNION {Range(Keys(CacheView.data[1][i])) : i \in 1..Len(CacheView.data[1])}

\* C21: the file a successful Create_Report writes, read back, has as many
\* rows as the cached result set and the same set of columns.
C21_ReportRoundTrip ==
    (lastCall.op = "Create_Report" /\ lastCall.wrote # {})
        => \A f \in lastCall.wrote :
              /\ Len(read_csv(f.content).rows) = Len(CacheView.data[1])
              /\ Range(read_csv(f.content).columns) = CachedColumns

\* a report of more rows than the preview shows, one of them a NULL in the
\* only column
C21_Witness ==
    /\ lastCall.op = "Create_Report"
    /\ lastCall.wrote # {}
    /\ Len(CacheView.data[1]) > max_rows
    /\ \E i \in 1..Len(CacheView.data[1]) : CacheView.data[1][i] = << Pair(C_n, PyNone) >>

\* the handle a successful Create_Plot returned
PlotHandle ==
    IF "plot_filename" \in DOMAIN lastCall.ret THEN lastCall.ret.plot_filename
    ELSE lastCall.ret.str

\* C23: the handle of a successful Create_Plot has no directory component
\* and the page finds the file that was written at <plot directory>/<handle>.
\* (Violated: RNAseqPlotter.create_plot returns "plots/<type>_<time>.html"
\* and the file is written there.)
C23_HandleFindsRendering ==
    (lastCall.op = "Create_Plot" /\ lastCall.wrote # {})
        => /\ "/" \notin Range(PlotHandle)
           /\ \E f \in lastCall.wrote : PathOf(f.dir, f.name) = app_plot_path(PlotHandle)

\* what the observation of the last call says, by its text
SaysNoData == Returned(M_plot_no_data)
SaysStale == Returned(M_plot_stale)
SaysBadType == StartsWith("Plot type '")
SaysBadColumn == StartsWith("Missing required columns: ")
SaysRendering == StartsWith("Failed to create ")

BelowLevel == { <<"0",".","0","1">>, <<"0",".","0","4","9">> }

\* C29: in the figure of a volcano chart a row is labelled "Significant"
\* exactly when its y value is a number below 0.05, whatever the request
\* says.
C29_VolcanoLabels ==
    (impl = "tools" /\ lastCall.op = "Create_Plot" /\ lastCall.wrote # {}
       /\ RequestedType = PT_volcano)
        => \A f \in lastCall.wrote :
              /\ Len(f.content.significant) = Len(CacheView.data[1])
              /\ \A i \in 1..Len(CacheView.data[1]) :
                    f.content.significant[i] =
                      IF /\ Get(CacheView.data[1][i], C_y)[1].ty = "float"
                         /\ Get(CacheView.data[1][i], C_y)[1].v \in BelowLevel
                      THEN "Significant" ELSE "Not Significant"

\* a volcano chart of rows with y below, at and above 0.05, NULL and text,
\* asked for with a parameter named threshold
C29_Witness ==
    /\ impl = "tools"
    /\ lastCall.op = "Create_Plot"
    /\ RequestedType = PT_volcano
    /\ Get(RequestedParams, <<"t","h","r","e","s","h","o","l","d">>) # None
    /\ \E f \in lastCall.wrote :
          /\ Len(f.content.significant) = 7
          /\ f.content.significant[1] = "Significant"
          /\ f.content.significant[3] = "Not Significant"

\* C30: every key of the sample values is "table.column" of a column whose
\* declared type contains "text", and its list holds at most 5 values, all
\* distinct and all values of that column of that table.
C30_SampleValues ==
    (lastCall.op = "Sample_Column_Values" /\ "sampled" \in DOMAIN lastCall.dbres)
        => \A e \in Range(lastCall.dbres.sampled) :
              \E tb \in Range(TableNames(storeCfg)) :
                 \E c \in Range(TableColumns(storeCfg, tb)) :
                    /\ e.k = tb \o <<".">> \o c.name
                    /\ Contains(Lower(c.type), K_text)
                    /\ Len(e.v) <= 5
                    /\ \A i, j \in 1..Len(e.v) : i # j => e.v[i] # e.v[j]
                    /\ \A i \in 1..Len(e.v) :
                          \E r \in Range(TableRows(storeCfg, tb)) : Get(r, c.name) = Some(e.v[i])

\* a text column of six distinct values, one of them in two rows, has been
\* sampled, in a file whose other table with a text column is refused by
\* execute_query for its name
C30_Witness ==
    /\ lastCall.op = "Sample_Column_Values"
    /\ "sampled" \in DOMAIN lastCall.dbres
    /\ \E e \in Range(lastCall.dbres.sampled) :
          /\ e.k = T_t \o <<".">> \o C_g
          /\ Len(e.v) = 5
    /\ storeCfg = "odd"
    /\ Len(lastCall.dbres.sampled) = 1

\* ---- claims about the serving of several conversations (ServeSpec) ----

\* conversation c made a call in this step and the call returned a filename
GotFile(c) == conv'[c].calls > conv[c].calls /\ conv'[c].handle # None

\* C22: every successful Create_Plot or Create_Report returns a filename that
\* no artifact written before carries, so no earlier artifact is overwritten,
\* also when two calls of one chart type fall in the same clock second.
C22_UniqueNames ==
    [][\A c \in Conversations :
          GotFile(c) => \A g \in assets : g.name # conv'[c].handle[1]]_vars

\* C25: whenever a conversation's thread is between two tool calls, and so
\* may read the result cache next, the data, the query text and the timestamp
\* in the cache were written by one and the same store operation.
C25_AtomicCacheWrite ==
    \A c \in Conversations :
        conv[c].pc = "agent" =>
            /\ origin.data = origin.query_info
            /\ origin.query_info = origin.timestamp

\* the rows conversation d put in the slot with the store operation `mark`
RowsStoredBy(d, mark) ==
    IF conv[d].mark = mark THEN conv[d].data ELSE conv[d].stored[1]

\* C26: the cache is one slot for the process: an artifact made by any
\* conversation is made from the rows of the store operation that wrote the
\* slot last, whichever conversation made that query.
C26_SharedSlot ==
    [][\A c \in Conversations :
          (GotFile(c) /\ conv'[c].used # None) =>
              /\ origin.data # None
              /\ conv'[c].used[1] = RowsStoredBy(origin.data[1][1], origin.data)]_vars

\* conversation c got a plot or report made from the rows another
\* conversation queried, which are not the rows of its own last query
C26_Witness ==
    \E c \in Conversations, d \in Conversations :
        /\ c # d
        /\ conv[c].used # None
        /\ conv[c].stored # None
        /\ conv[d].stored # None
        /\ origin = WholeOrigin(origin.data)
        /\ origin.data # None
        /\ origin.data[1][1] = d
        /\ conv[c].used = conv[d].stored
        /\ conv[c].used # conv[c].stored

TableHeads(text) == {i \in 1..Len(text) : text[i] = "Table: "}
ColumnLines(text, i) ==
    Cardinality({j \in (i + 1)..Len(text) :
                    /\ text[j] = "  - "
                    /\ \A k \in (i + 1)..j : text[k] # "Table: "})

\* C31: the text of Database_Schema lists at most max_tables tables and,
\* under each of them, at most max_columns columns, and says how many
\* tables and columns it left out.
\* (Violated: the tool of tools.py lists every column of a listed table.)
C31_ListingBounded ==
    (lastCall.op = "Database_Schema" /\ connection = "open" /\ storeCfg = "wide")
        => /\ Cardinality(TableHeads(lastCall.ret.str)) <= max_tables
           /\ \A i \in TableHeads(lastCall.ret.str) :
                 ColumnLines(lastCall.ret.str, i) <= max_columns
           /\ \E i \in 1..Len(lastCall.ret.str) :
                 /\ lastCall.ret.str[i] = "... and "
                 /\ lastCall.ret.str[i + 1] = ToString(Len(TableNames(storeCfg)) - max_tables)
           /\ \E i \in 1..Len(lastCall.ret.str) :
                 /\ lastCall.ret.str[i] = "  ... and "
                 /\ lastCall.ret.str[i + 1]
                      = ToString(Len(TableColumns(storeCfg, T_wide)) - max_columns)

\* the exchanges of the turns 1..n as the memory holds them
WholeChat(n) ==
    [i \in 1..(2 * n) |->
        IF i % 2 = 1
        THEN [type |-> "human", content |-> AgentRequest(ChatQuestion((i + 1) \div 2))]
        ELSE [type |-> "ai", content |-> ChatAnswer(i \div 2)]]

C33_BackoffDelay ==
    [][turn'.slept = turn.slept + 1
          => /\ \E j \in Jitter :
                  turn'.delay = (IF 2 ^ turn.attempt + j < max_delay
                                 THEN 2 ^ turn.attempt + j ELSE max_delay)
             /\ turn'.delay <= max_delay
             /\ turn.slept >= 1 => turn'.delay >= turn.delay]_vars

\* the last sleep of a call with the largest jitter: 2^3 + 1 seconds after
\* the fourth failed attempt
C33_Witness ==
    /\ turn.slept = max_retries - 1
    /\ turn.delay = 2 ^ (max_retries - 2) + 1

IsFailure(result) ==
    /\ DOMAIN result = {"error"}
    /\ result.error # <<>>
IsSuccess(result) ==
    /\ DOMAIN result = {"success", "data", "columns", "row_count"}
    /\ result.success = TRUE
    /\ result.row_count = Len(result.data)
    /\ \A i \in 1..Len(result.data) : Keys(result.data[i]) = result.columns

\* C35: every value execute_query returns, to a direct caller or to the
\* SQL_Query tool, is either a failure that carries an error message and
\* nothing else, or a success that carries the rows, the ordered column
\* names and the row count and no error; the row count of a success is the
\* number of its rows and every row maps the column names to values.
C35_TwoShapes ==
    (lastCall.op \in {"execute_query", "SQL_Query"} /\ lastCall.dbres # NoResult)
        => /\ IsFailure(lastCall.dbres) \/ IsSuccess(lastCall.dbres)
           /\ ~(IsFailure(lastCall.dbres) /\ IsSuccess(lastCall.dbres))

\* a success of more than one row and more than one column
C35_Witness ==
    /\ lastCall.op = "execute_query"
    /\ IsSuccess(lastCall.dbres)
    /\ lastCall.dbres.row_count > 1
    /\ Len(lastCall.dbres.columns) > 1

\* C36: after close() the handle is still set, so execute_query,
\* get_table_names and get_table_info make no sqlite3.connect and return
\* their failure outcome (a result with an error, an empty list, a result
\* with an error) for as long as connect() is not called.
\* (Violated: get_table_info on a closed connection returns a success with
\* no tables.)
C36_ClosedStaysClosed ==
    connection = "closed"
        => /\ lastCall.op \in {"execute_query", "get_table_names", "get_table_info"}
                => \A i \in 1..Len(lastCall.log) : lastCall.log[i] # "connect"
           /\ lastCall.op = "execute_query" => DOMAIN lastCall.ret = {"error"}
           /\ lastCall.op = "get_table_names" => lastCall.ret = [list |-> <<>>]
           /\ lastCall.op = "get_table_info" => DOMAIN lastCall.ret = {"error"}

\* what the operation of a thread returns when no other call is under way
Sequential(th) ==
    IF th.op = "execute_query"
    THEN execute_query("open", "None", storeCfg, TRUE, th.query).ret
    ELSE IF th.op = "get_table_names"
    THEN get_table_names("open", "Row", storeCfg, TRUE).ret
    ELSE get_table_info("open", "Row", storeCfg, TRUE).ret

\* C37: the operations of the gateway share one connection and each
\* assigns its row format before it creates a cursor.  A cursor made with
\* no assignment of another thread since the call's own has the format of
\* the call, and a call whose cursors have its format returns what it
\* returns on its own; an execute_query whose cursor was made after the
\* assignment of an introspection call reads tuples and returns an error
\* for a statement that the store executes and that has rows.
C37_SharedRowFormat ==
    \A t \in Threads :
        /\ (conv[t].pc \in {"fetch", "done"} /\ ~conv[t].overlap)
               => conv[t].format = own_format(conv[t].op)
        /\ (conv[t].pc = "done" /\ ~conv[t].overlap) => conv[t].ret = Sequential(conv[t])
        /\ (conv[t].pc = "done" /\ conv[t].op = "execute_query"
              /\ conv[t].format # own_format(conv[t].op)
              /\ Sequential(conv[t]).row_count > 0)
               => /\ DOMAIN conv[t].ret = {"error"}
                  /\ conv[t].ret # Sequential(conv[t])

\* execute_query of "select * from t" has returned an error because its
\* cursor gave tuples
C37_Witness ==
    \E t \in Threads :
        /\ conv[t].pc = "done"
        /\ conv[t].op = "execute_query"
        /\ conv[t].query = Q_t
        /\ conv[t].format = "None"
        /\ "success" \in DOMAIN Sequential(conv[t])
        /\ DOMAIN conv[t].ret = {"error"}

\* the text returned by Sample_Column_Values has an entry for "table.column":
\* a line of the listing of tools.py, a key of the JSON object of agent.py
EntryIn(text, key) ==
    Contains(text, IF impl = "tools" THEN <<"- ">> \o key \o <<": ">>
                   ELSE <<"\"">> \o key \o <<"\": [">>)

\* C38: on a usable connection the result of Sample_Column_Values has no
\* entry for a text column whose table name or column name contains a
\* keyword of the denylist, and has an entry for every other text column
\* of a table that holds a row.
\* (Violated: the tool of agent.py raises when a sampled value is a BLOB,
\* and returns no entry at all.)
C38_DenylistedNamesSkipped ==
    (lastCall.op = "Sample_Column_Values" /\ connection = "open")
        => \A tb \in Range(TableNames(storeCfg)) :
              \A c \in Range(TableColumns(storeCfg, tb)) :
                 Contains(Lower(c.type), K_text)
                    => IF IsDangerous(tb) \/ IsDangerous(c.name)
                       THEN ~EntryIn(lastCall.ret.str, tb \o <<".">> \o c.name)
                       ELSE TableRows(storeCfg, tb) # <<>>
                               => /\ lastCall.raised = <<>>
                                  /\ EntryIn(lastCall.ret.str, tb \o <<".">> \o c.name)

====
